---- MODULE Spec2Model ----
(***************************************************************************)
(* Model of the UAV path planner (nonrt/uav-path-planner, planner.py) and  *)
(* of the path-aware policy engine (xapps/uav-policy, policy_engine.py).   *)
(*                                                                         *)
(* Number representation.  The Python code computes on floats; the model   *)
(* computes on integers in fixed units, chosen so that every value the     *)
(* model draws is exact:                                                   *)
(*   - sinr_db, rsrp: whole dB;  load: 0 or 1;                             *)
(*   - planner weights, penalties and scores: halves (the default          *)
(*     w_load = 0.5 and ho_penalty = 0.5 are 1, w_sinr = 1.0 is 2);        *)
(*   - path positions: ticks of 1/Unit; the 1e-9 nudge of the last         *)
(*     segment is one tick, smaller than any distance index/norm.          *)
(* A Python dict is a sequence of entries in insertion order, since the    *)
(* code iterates dicts and takes the first maximum it meets.               *)
(***************************************************************************)
EXTENDS Integers, Sequences, FiniteSets, TLC

VARIABLES
    pc,          \* which call has been made: "init", then the call's outcome
    waypoints,   \* planner input: sequence of Waypoint records
    radio_map,   \* planner input: RadioMap.metrics
    config,      \* planner input: PlannerConfig, or None
    service,     \* planner input: ServiceProfile
    cells,       \* cell sequence: result of _choose_cells_dp / input of _compress_to_segments
    dp_states,   \* the DP rows built by _choose_cells_dp
    policy,      \* FlightPlanPolicy returned (or to serialize), or None
    raised,      \* exception that left the call, or NoError
    uav,         \* policy input: UavState
    radio,       \* policy input: RadioSnapshot
    plan,        \* policy input: FlightPlanPolicy, or None
    profile,     \* policy input: ServiceProfile, or None
    limits,      \* policy input: thresholds and quota bounds (keyword arguments)
    decision,    \* ResourceDecision returned, or None
    serialized,  \* dict returned by policy_to_dict, or None
    restored,    \* FlightPlanPolicy returned by policy_from_dict, or None
    estimate_args,  \* estimator input: target_bitrate_mbps (tenths), sinr_db (dB)
    required_prb,   \* PRB count returned by estimate_required_prb, or None
    fleet,       \* per UAV id: the argument objects handed to the policy
    calls,       \* the calls of the policy made so far: arguments and outcome
    max_history,       \* PolicyEngineHandler.max_history
    decision_history,  \* PolicyEngineHandler.decision_history
    recorded,    \* every record built by record_decision, in arrival order
    request,     \* bodies of the POST /e2/indication requests so far
    response,    \* statuses they were answered with, in the same order
    limit,       \* argument of the last get_recent_decisions, or None
    recent,      \* list returned by the last get_recent_decisions
    position,    \* path_position handed to find_active_segment, or None
    found,       \* segment returned by find_active_segment, or None
    baseline,    \* ResourceDecision returned by simple_path_aware_policy, or None
    heap,        \* the list objects of the handler process: id -> content
    history_ref, \* the list object self.decision_history refers to
    threads      \* per request thread: its position in record_decision, its locals

plannerVars == <<waypoints, radio_map, config, service, cells, dp_states>>
engineVars == <<uav, radio, plan, profile, limits, decision>>
codecVars == <<serialized, restored>>
estimatorVars == <<estimate_args, required_prb>>
fleetVars == <<fleet, calls>>
handlerVars == <<max_history, decision_history, recorded>>
serverVars == <<request, response, limit, recent>>
raceVars == <<heap, history_ref, threads>>
lookupVars == <<position, found>>
extraVars == <<lookupVars, baseline, raceVars>>
otherVars == <<estimatorVars, fleetVars, handlerVars, serverVars, extraVars>>
vars == <<pc, plannerVars, policy, raised, engineVars, codecVars, otherVars>>

\* Optional[T]: None is the empty tuple, a present value v is <<v>>
None == <<>>
Some(v) == <<v>>
Get(opt) == opt[1]

\* the value of `raised` when the call returned normally
NoError == "none"

Cells == {"cell-A", "cell-B"}
UavIds == {"uav-001", "uav-002"}

\* ---------------------------------------------------------------- bounds
MaxWp == 2
MaxPenalty == 1
MaxIndex == 3
MaxPath == 3
MaxSegments == 2

\* ------------------------------------------------------------- utilities
Max2(a, b) == IF a >= b THEN a ELSE b
Min2(a, b) == IF a <= b THEN a ELSE b

RECURSIVE InsertByIndex(_, _)
InsertByIndex(sorted, w) ==
    IF sorted = <<>> THEN <<w>>
    ELSE IF Head(sorted).index <= w.index
         THEN <<Head(sorted)>> \o InsertByIndex(Tail(sorted), w)
         ELSE <<w>> \o sorted

\* sorted(waypoints, key=lambda w: w.index): stable, ascending
RECURSIVE SortByIndex(_)
SortByIndex(ws) ==
    IF ws = <<>> THEN <<>>
    ELSE InsertByIndex(SortByIndex(SubSeq(ws, 1, Len(ws) - 1)), ws[Len(ws)])

\* RadioMap.get_cells_for_step: the step's dict, {} when the step has no entry
GetCellsForStep(rm, step) ==
    IF step \in DOMAIN rm THEN rm[step] ELSE <<>>

\* PlannerConfig.utility, in halves
Utility(cfg, sinr_db, load) ==
    cfg.w_sinr * (sinr_db - cfg.sinr_min_db) - cfg.w_load * load

\* ------------------------------------------------------ _choose_cells_dp
\* max(cell_metrics.items(), key=sinr_db): the first entry of maximal sinr_db
FirstMaxSinr(cell_metrics) ==
    cell_metrics[CHOOSE i \in 1..Len(cell_metrics) :
        /\ \A j \in 1..Len(cell_metrics) : cell_metrics[j].sinr_db <= cell_metrics[i].sinr_db
        /\ \A j \in 1..(i - 1) : cell_metrics[j].sinr_db < cell_metrics[i].sinr_db]

MeetsFloor(cfg, met) == met.sinr_db >= cfg.sinr_min_db

\* the candidate dict of a step: the cells at or above the floor, in the
\* step's insertion order, else the single best-SINR cell
Candidates(cell_metrics, cfg) ==
    LET kept == SelectSeq(cell_metrics, LAMBDA met : MeetsFloor(cfg, met))
    IN  IF kept # <<>> THEN kept ELSE <<FirstMaxSinr(cell_metrics)>>

\* dp0: every candidate of the first step with its utility and no predecessor
FirstRow(cands, cfg) ==
    [k \in 1..Len(cands) |->
        [cell |-> cands[k].cell,
         score |-> Utility(cfg, cands[k].sinr_db, cands[k].load),
         prev |-> None]]

\* mutant: the handover penalty charged for staying instead of for switching
TransitionScorePenaltyOnStay(cfg, prev_score, prev_cell, cell_id, met) ==
    LET score == prev_score + Utility(cfg, met.sinr_db, met.load)
    IN  IF prev_cell = cell_id THEN score - cfg.ho_penalty ELSE score

\* mutant: the handover penalty is added on a cell change
TransitionScoreRewardsSwitch(cfg, prev_score, prev_cell, cell_id, met) ==
    LET score == prev_score + Utility(cfg, met.sinr_db, met.load)
    IN  IF prev_cell # cell_id THEN score + cfg.ho_penalty ELSE score

\* the score of reaching cell_id from prev_cell
TransitionScore(cfg, prev_score, prev_cell, cell_id, met) ==
    LET score == prev_score + Utility(cfg, met.sinr_db, met.load)
    IN  IF prev_cell # cell_id THEN score - cfg.ho_penalty ELSE score

\* "best_score is None or score > best_score"
Improves(best, score) == best = None \/ score > Get(best).score

\* the loop over prev_dp.items(): best is None or Some([score, prev])
RECURSIVE BestIncoming(_, _, _, _, _)
BestIncoming(cfg, prev_dp, k, met, best) ==
    IF k > Len(prev_dp) THEN best
    ELSE LET score == TransitionScore(cfg, prev_dp[k].score, prev_dp[k].cell, met.cell, met)
         IN  BestIncoming(cfg, prev_dp, k + 1, met,
                 IF Improves(best, score)
                 THEN Some([score |-> score, prev |-> Some(prev_dp[k].cell)])
                 ELSE best)

\* "assert best_score is not None" fails for some candidate: the loop over
\* prev_dp found nothing
BestScoreMissing(cfg, prev_dp, cands) ==
    \E k \in 1..Len(cands) : BestIncoming(cfg, prev_dp, 1, cands[k], None) = None

\* mutant: the predecessor of an entry is not stored
NextRowWithoutPredecessor(cfg, prev_dp, cands) ==
    [k \in 1..Len(cands) |->
        LET best == Get(BestIncoming(cfg, prev_dp, 1, cands[k], None))
        IN  [cell |-> cands[k].cell, score |-> best.score, prev |-> None]]

\* curr_dp: one entry per candidate, in candidate order
NextRow(cfg, prev_dp, cands) ==
    [k \in 1..Len(cands) |->
        LET best == Get(BestIncoming(cfg, prev_dp, 1, cands[k], None))
        IN  [cell |-> cands[k].cell, score |-> best.score, prev |-> best.prev]]

\* "if not first_cells" / "if not cell_metrics"
NoMetrics(cell_metrics) == cell_metrics = <<>>

\* dp_states after steps[1..i]: [raised, rows]; ValueError as soon as a step
\* has no metrics, and the rows built so far are dropped with the frame
RECURSIVE DpRows(_, _, _, _)
DpRows(steps, rm, cfg, i) ==
    IF i = 0 THEN [raised |-> NoError, rows |-> <<>>]
    ELSE LET before == DpRows(steps, rm, cfg, i - 1)
             cell_metrics == GetCellsForStep(rm, steps[i])
         IN  IF before.raised # NoError THEN before
             ELSE IF NoMetrics(cell_metrics)
                  THEN [raised |-> "ValueError", rows |-> <<>>]
             ELSE IF i = 1
                  THEN [raised |-> NoError,
                        rows |-> <<FirstRow(Candidates(cell_metrics, cfg), cfg)>>]
             ELSE IF BestScoreMissing(cfg, before.rows[i - 1],
                                      Candidates(cell_metrics, cfg))
                  THEN [raised |-> "AssertionError", rows |-> <<>>]
                  ELSE [raised |-> NoError,
                        rows |-> Append(before.rows,
                                    NextRow(cfg, before.rows[i - 1],
                                            Candidates(cell_metrics, cfg)))]

\* max(last_dp.items(), key=score): the first entry of maximal score
LastCell(last_dp) ==
    last_dp[CHOOSE i \in 1..Len(last_dp) :
        /\ \A j \in 1..Len(last_dp) : last_dp[j].score <= last_dp[i].score
        /\ \A j \in 1..(i - 1) : last_dp[j].score < last_dp[i].score].cell

\* dp_states[i][cell_id]
RowEntry(row, cell_id) ==
    row[CHOOSE k \in 1..Len(row) : row[k].cell = cell_id]

\* what the backtracking loop raises from row i down, with cell chosen for
\* row i: KeyError when the row has no entry for it, AssertionError
\* ("assert prev_cell is not None") when the entry names no predecessor
RECURSIVE BacktrackRaised(_, _, _)
BacktrackRaised(rows, i, cell_id) ==
    IF i = 1 THEN NoError
    ELSE IF \A k \in 1..Len(rows[i]) : rows[i][k].cell # cell_id THEN "KeyError"
    ELSE IF RowEntry(rows[i], cell_id).prev = None THEN "AssertionError"
    ELSE BacktrackRaised(rows, i - 1, Get(RowEntry(rows[i], cell_id).prev))

\* the backtracking loop: chosen_cells[i..n], extended down to position 1
RECURSIVE Backtrack(_, _, _)
Backtrack(rows, i, chosen) ==
    IF i = 1 THEN chosen
    ELSE Backtrack(rows, i - 1, <<Get(RowEntry(rows[i], Head(chosen)).prev)>> \o chosen)

\* mutant: the ValueError is caught and an empty sequence returned
ChooseCellsDpSwallowing(ws, rm, cfg) ==
    IF ws = <<>> THEN [raised |-> NoError, cells |-> <<>>, dp_states |-> <<>>]
    ELSE LET sorted == SortByIndex(ws)
             steps == [i \in 1..Len(sorted) |-> sorted[i].index]
             dp == DpRows(steps, rm, cfg, Len(steps))
             rows == dp.rows
         IN  IF dp.raised # NoError
             THEN [raised |-> NoError, cells |-> <<>>, dp_states |-> <<>>]
             ELSE [raised |-> NoError,
                   cells |-> Backtrack(rows, Len(rows), <<LastCell(rows[Len(rows)])>>),
                   dp_states |-> rows]

\* mutant: the waypoints are walked in the order they were passed in
ChooseCellsDpUnsorted(ws, rm, cfg) ==
    IF ws = <<>> THEN [raised |-> NoError, cells |-> <<>>, dp_states |-> <<>>]
    ELSE LET steps == [i \in 1..Len(ws) |-> ws[i].index]
             dp == DpRows(steps, rm, cfg, Len(steps))
             rows == dp.rows
         IN  IF dp.raised # NoError
             THEN [raised |-> dp.raised, cells |-> <<>>, dp_states |-> <<>>]
             ELSE [raised |-> NoError,
                   cells |-> Backtrack(rows, Len(rows), <<LastCell(rows[Len(rows)])>>),
                   dp_states |-> rows]

\* _choose_cells_dp: [raised, cells, dp_states]
ChooseCellsDp(ws, rm, cfg) ==
    IF ws = <<>> THEN [raised |-> NoError, cells |-> <<>>, dp_states |-> <<>>]
    ELSE LET sorted == SortByIndex(ws)
             steps == [i \in 1..Len(sorted) |-> sorted[i].index]
             dp == DpRows(steps, rm, cfg, Len(steps))
             rows == dp.rows
         IN  IF dp.raised # NoError
             THEN [raised |-> dp.raised, cells |-> <<>>, dp_states |-> <<>>]
             ELSE IF BacktrackRaised(rows, Len(rows), LastCell(rows[Len(rows)])) # NoError
             THEN [raised |-> BacktrackRaised(rows, Len(rows), LastCell(rows[Len(rows)])),
                   cells |-> <<>>, dp_states |-> <<>>]
             ELSE [raised |-> NoError,
                   cells |-> Backtrack(rows, Len(rows), <<LastCell(rows[Len(rows)])>>),
                   dp_states |-> rows]

\* ------------------------------------------------- _compress_to_segments
\* 1.0 on the position axis, in ticks; divisible by every norm the model reaches
Unit == 6000
\* the 1e-9 nudge of the last end_pos: one tick
Epsilon == 1
\* the floor of base_prb_quota
MinBaseQuota == 5

\* mutant: the bitrate is rounded up instead of truncated
IntOfTenthsRoundedUp(x) == (x + 9) \div 10

\* int(x) of a non-negative bitrate kept in tenths of Mbps
IntOfTenths(x) == x \div 10

\* waypoint.index / norm, in ticks
PosOf(index, norm) == (index * Unit) \div norm

\* end_pos of a segment ending at sorted waypoint end_idx (1-based)
EndPos(sorted, norm, end_idx) ==
    LET end_pos == PosOf(sorted[end_idx].index, norm)
    IN  IF end_idx = Len(sorted) THEN Min2(Unit, end_pos + Epsilon) ELSE end_pos

\* add_segment(end_idx): the segment from seg_start_idx to end_idx on current_cell
AddSegment(sorted, norm, svc, seg_start_idx, current_cell, end_idx) ==
    [class |-> "PathSegmentPlan",
     start_pos |-> PosOf(sorted[seg_start_idx].index, norm),
     end_pos |-> EndPos(sorted, norm, end_idx),
     planned_cell_id |-> current_cell,
     slice_id |-> svc.name,
     base_prb_quota |-> Max2(MinBaseQuota, IntOfTenths(svc.target_bitrate_mbps))]

\* mutant: every cell is compared with the first cell of the sequence
CellChangesFromFirst(cs, i, current_cell) == cs[i] # cs[1]

\* "if cells[i] != current_cell"
CellChanges(cs, i, current_cell) == cs[i] # current_cell

\* the scan "for i in range(1, n)" from position i on (1-based), then the
\* closing add_segment(n - 1)
RECURSIVE ScanSegments(_, _, _, _, _, _, _)
ScanSegments(sorted, norm, svc, cs, i, st, segs) ==
    IF i > Len(sorted)
    THEN Append(segs, AddSegment(sorted, norm, svc, st.seg_start_idx, st.current_cell,
                                 Len(sorted)))
    ELSE IF CellChanges(cs, i, st.current_cell)
         THEN ScanSegments(sorted, norm, svc, cs, i + 1,
                  [current_cell |-> cs[i], seg_start_idx |-> i],
                  Append(segs, AddSegment(sorted, norm, svc, st.seg_start_idx,
                                          st.current_cell, i - 1)))
         ELSE ScanSegments(sorted, norm, svc, cs, i + 1, st, segs)

FlightPlanPolicy(uav_id, segments) ==
    [class |-> "FlightPlanPolicy", uav_id |-> uav_id, segments |-> segments]

\* mutant: empty input yields one placeholder segment over the whole path
CompressToSegmentsPlaceholder(uav_id, ws, cs, svc) ==
    IF ws = <<>> \/ cs = <<>>
    THEN FlightPlanPolicy(uav_id,
             <<[class |-> "PathSegmentPlan", start_pos |-> 0, end_pos |-> Unit,
                planned_cell_id |-> "cell-A", slice_id |-> svc.name,
                base_prb_quota |-> MinBaseQuota]>>)
    ELSE LET sorted == SortByIndex(ws)
             norm == Max2(1, Len(sorted) - 1)
         IN  FlightPlanPolicy(uav_id,
                 ScanSegments(sorted, norm, svc, cs, 2,
                     [current_cell |-> cs[1], seg_start_idx |-> 1], <<>>))

CompressToSegments(uav_id, ws, cs, svc) ==
    IF ws = <<>> \/ cs = <<>> THEN FlightPlanPolicy(uav_id, <<>>)
    ELSE LET sorted == SortByIndex(ws)
             norm == Max2(1, Len(sorted) - 1)
         IN  FlightPlanPolicy(uav_id,
                 ScanSegments(sorted, norm, svc, cs, 2,
                     [current_cell |-> cs[1], seg_start_idx |-> 1], <<>>))

\* ------------------------------------------------------ plan_flight_path
\* PlannerConfig(sinr_min_db=...): the dataclass defaults, weights in halves
DefaultConfig(sinr_min_db) ==
    [sinr_min_db |-> sinr_min_db, w_sinr |-> 2, w_load |-> 1, ho_penalty |-> 1]

\* plan_flight_path: [raised, cells, dp_states, policy]
PlanFlightPath(uav_id, ws, rm, svc, cfg_opt) ==
    LET cfg == IF cfg_opt = None THEN DefaultConfig(svc.min_sinr_db) ELSE Get(cfg_opt)
        dp == ChooseCellsDp(ws, rm, cfg)
    IN  IF dp.raised # NoError
        THEN [raised |-> dp.raised, cells |-> <<>>, dp_states |-> <<>>, policy |-> None]
        ELSE [raised |-> NoError, cells |-> dp.cells, dp_states |-> dp.dp_states,
              policy |-> Some(CompressToSegments(uav_id, ws, dp.cells, svc))]

\* ------------------------------------------ policy_to_dict / policy_from_dict
\* a dict is a record without class: its keys are the field names
SegmentToDict(s) ==
    [start_pos |-> s.start_pos, end_pos |-> s.end_pos,
     planned_cell_id |-> s.planned_cell_id, slice_id |-> s.slice_id,
     base_prb_quota |-> s.base_prb_quota]

PolicyToDict(p) ==
    [uav_id |-> p.uav_id,
     segments |-> [i \in 1..Len(p.segments) |-> SegmentToDict(p.segments[i])]]

\* mutant: start_pos and end_pos read from each other's key
SegmentFromDictSwapped(d) ==
    [class |-> "PathSegmentPlan",
     start_pos |-> d.end_pos, end_pos |-> d.start_pos,
     planned_cell_id |-> d.planned_cell_id, slice_id |-> d.slice_id,
     base_prb_quota |-> d.base_prb_quota]

SegmentFromDict(d) ==
    [class |-> "PathSegmentPlan",
     start_pos |-> d.start_pos, end_pos |-> d.end_pos,
     planned_cell_id |-> d.planned_cell_id, slice_id |-> d.slice_id,
     base_prb_quota |-> d.base_prb_quota]

\* data.get("segments", [])
DictSegments(data) == IF "segments" \in DOMAIN data THEN data.segments ELSE <<>>

PolicyFromDict(data) ==
    FlightPlanPolicy(data.uav_id,
        [i \in 1..Len(DictSegments(data)) |-> SegmentFromDict(DictSegments(data)[i])])

\* ---------------------------------------------------- find_active_segment
\* "seg.start_pos <= path_position < seg.end_pos"
Covers(seg, path_position) ==
    seg.start_pos <= path_position /\ path_position < seg.end_pos

\* mutant: the last covering segment is returned instead of the first
FindActiveSegmentLastMatch(p, path_position) ==
    LET hits == {i \in 1..Len(p.segments) : Covers(p.segments[i], path_position)}
    IN  IF hits # {}
        THEN Some(p.segments[CHOOSE i \in hits : \A j \in hits : i >= j])
        ELSE IF p.segments # <<>> THEN Some(p.segments[Len(p.segments)])
        ELSE None

\* Optional[PathSegmentPlan]: the first covering segment, else the last one
FindActiveSegment(p, path_position) ==
    LET hits == {i \in 1..Len(p.segments) : Covers(p.segments[i], path_position)}
    IN  IF hits # {}
        THEN Some(p.segments[CHOOSE i \in hits : \A j \in hits : i <= j])
        ELSE IF p.segments # <<>> THEN Some(p.segments[Len(p.segments)])
        ELSE None

\* --------------------------------------------------- estimate_required_prb
\* the floor of the SINR model, dB
SinrFloorDb == -10
\* 10 ** (sinr_db / 10.0) leaves the float range (OverflowError) from this
\* sinr_db on: 10 ** 308.3 > 1.797e308
PowOverflowDb == 3083

\* log2(1 + 10 ** (sinr_db / 10.0)) in 1e-5 bit/s/Hz, at the SINR values the
\* model draws
SpectralEfficiency(sinr_db) ==
    CASE sinr_db = -10 -> 13750
      [] sinr_db = -5 -> 39641
      [] sinr_db = 0 -> 100000
      [] sinr_db = 5 -> 205737
      [] sinr_db = 10 -> 345943
      [] sinr_db = 15 -> 502781
      [] sinr_db = 20 -> 665821
      [] sinr_db = 30 -> 996723

\* ceil(a / b) of positive integers
CeilDiv(a, b) == (a + b - 1) \div b

\* "if sinr_db < -10.0: sinr_db = -10.0"
ClampSinr(sinr_db) == IF sinr_db < SinrFloorDb THEN SinrFloorDb ELSE sinr_db

\* estimate_required_prb with prb_bandwidth_hz = 180e3: [raised, prb].
\* target_bitrate_mbps is in tenths of Mbps; throughput per PRB is
\* SpectralEfficiency * 0.18 Mbps, so the ratio is
\* (bitrate / 10) / (se * 1e-5 * 0.18) = bitrate * 10^6 / (se * 18).
EstimateRequiredPrb(target_bitrate_mbps, sinr_db) ==
    LET clamped == ClampSinr(sinr_db)
    IN  IF clamped >= PowOverflowDb
        THEN [raised |-> "OverflowError", prb |-> 0]
        ELSE [raised |-> NoError,
              prb |-> Max2(1, CeilDiv(target_bitrate_mbps * 1000000,
                                      SpectralEfficiency(clamped) * 18))]

\* --------------------------------------------------- path_aware_rc_policy
\* defaults of the keyword arguments; prb utilisation is in hundredths
OverloadedThreshold == 80
HysteresisDb == 3
MinPrbQuota == 5
MaxPrbQuota == 100

\* mutant: a serving cell exactly at the threshold counts as overloaded
OverloadedAtThreshold(rad, lim) ==
    rad.prb_utilization_serving >= lim.overloaded_threshold

Overloaded(rad, lim) == rad.prb_utilization_serving > lim.overloaded_threshold

\* mutant: a neighbor exactly hysteresis_db stronger counts as clearly stronger
NeighborStrongerOrEqual(rad, lim) ==
    rad.rsrp_best_neighbor >= rad.rsrp_serving + lim.hysteresis_db

NeighborStronger(rad, lim) ==
    rad.rsrp_best_neighbor > rad.rsrp_serving + lim.hysteresis_db

\* the active segment: looked up only with a plan and a path position
ActiveSegment(u, p_opt) ==
    IF p_opt # None /\ u.path_position # None
    THEN FindActiveSegment(Get(p_opt), Get(u.path_position))
    ELSE None

\* the target-cell branch: [target, reason]
TargetCell(rad, lim, active_seg) ==
    IF active_seg # None
    THEN LET planned_cell == Get(active_seg).planned_cell_id
         IN  IF planned_cell # rad.serving_cell_id
             THEN IF Overloaded(rad, lim)
                  THEN IF NeighborStronger(rad, lim)
                       THEN [target |-> planned_cell, reason |-> <<"follow-plan">>]
                       ELSE [target |-> rad.serving_cell_id,
                             reason |-> <<"plan-neighbor-not-better">>]
                  ELSE [target |-> rad.serving_cell_id,
                        reason |-> <<"plan-serving-not-overloaded">>]
             ELSE [target |-> rad.serving_cell_id, reason |-> <<"serving-matches-plan">>]
    ELSE IF /\ Overloaded(rad, lim)
            /\ NeighborStronger(rad, lim)
            /\ rad.neighbor_cell_ids # <<>>
         THEN [target |-> rad.neighbor_cell_ids[1],
               reason |-> <<"no-active-segment", "reactive-handover">>]
         ELSE [target |-> rad.serving_cell_id,
               reason |-> <<"no-active-segment", "reactive-stay">>]

\* mutant: the slice of the active segment wins over the slice of the UAV
TargetSliceSegmentFirst(u, active_seg) ==
    IF active_seg # None
    THEN [slice |-> Some(Get(active_seg).slice_id), reason |-> <<"segment-slice">>]
    ELSE IF u.slice_id # None
         THEN [slice |-> u.slice_id, reason |-> <<"uav-slice">>]
         ELSE [slice |-> None, reason |-> <<"no-slice">>]

\* the slice branch: [slice, reason]
TargetSlice(u, active_seg) ==
    IF u.slice_id # None
    THEN [slice |-> u.slice_id, reason |-> <<"uav-slice">>]
    ELSE IF active_seg # None
         THEN [slice |-> Some(Get(active_seg).slice_id), reason |-> <<"segment-slice">>]
         ELSE [slice |-> None, reason |-> <<"no-slice">>]

\* mutant: the upper clamp is missing
ClampQuotaNoCeiling(required_quota, lim) == Max2(lim.min_prb_quota, required_quota)

\* "max(min_prb_quota, min(required_quota, max_prb_quota))"
ClampQuota(required_quota, lim) ==
    Max2(lim.min_prb_quota, Min2(required_quota, lim.max_prb_quota))

\* mutant: with a service the estimate replaces the base quota
RequiredQuotaEstimateOnly(rad, lim, active_seg, svc_opt, target_cell) ==
    LET base_quota == IF active_seg # None THEN Get(active_seg).base_prb_quota
                      ELSE lim.min_prb_quota
    IN  IF svc_opt # None
        THEN LET svc == Get(svc_opt)
                 stay == target_cell = rad.serving_cell_id
                 sinr == IF stay THEN rad.rsrp_serving ELSE rad.rsrp_best_neighbor
                 est == EstimateRequiredPrb(svc.target_bitrate_mbps, sinr)
             IN  [raised |-> est.raised,
                  required |-> est.prb,
                  reason |-> <<IF stay THEN "estimate-from-serving"
                                       ELSE "estimate-from-neighbor">>
                             \o (IF sinr < svc.min_sinr_db THEN <<"sinr-below-minimum">>
                                 ELSE <<>>)
                             \o <<"service-estimate">>]
        ELSE [raised |-> NoError, required |-> base_quota, reason |-> <<"no-service">>]

\* mutant: the estimate always takes rsrp_serving as its SINR proxy
RequiredQuotaServingProxy(rad, lim, active_seg, svc_opt, target_cell) ==
    LET base_quota == IF active_seg # None THEN Get(active_seg).base_prb_quota
                      ELSE lim.min_prb_quota
    IN  IF svc_opt # None
        THEN LET svc == Get(svc_opt)
                 stay == target_cell = rad.serving_cell_id
                 sinr == rad.rsrp_serving
                 est == EstimateRequiredPrb(svc.target_bitrate_mbps, sinr)
             IN  [raised |-> est.raised,
                  required |-> Max2(est.prb, base_quota),
                  reason |-> <<IF stay THEN "estimate-from-serving"
                                       ELSE "estimate-from-neighbor">>
                             \o (IF sinr < svc.min_sinr_db THEN <<"sinr-below-minimum">>
                                 ELSE <<>>)
                             \o <<"service-estimate">>]
        ELSE [raised |-> NoError, required |-> base_quota, reason |-> <<"no-service">>]

\* the quota branch: [raised, required, reason]
RequiredQuota(rad, lim, active_seg, svc_opt, target_cell) ==
    LET base_quota == IF active_seg # None THEN Get(active_seg).base_prb_quota
                      ELSE lim.min_prb_quota
    IN  IF svc_opt # None
        THEN LET svc == Get(svc_opt)
                 stay == target_cell = rad.serving_cell_id
                 sinr == IF stay THEN rad.rsrp_serving ELSE rad.rsrp_best_neighbor
                 est == EstimateRequiredPrb(svc.target_bitrate_mbps, sinr)
             IN  [raised |-> est.raised,
                  required |-> Max2(est.prb, base_quota),
                  reason |-> <<IF stay THEN "estimate-from-serving"
                                       ELSE "estimate-from-neighbor">>
                             \o (IF sinr < svc.min_sinr_db THEN <<"sinr-below-minimum">>
                                 ELSE <<>>)
                             \o <<"service-estimate">>]
        ELSE [raised |-> NoError, required |-> base_quota, reason |-> <<"no-service">>]

\* mutant: the policy remembers the decision it returned last and stays on
\* the serving cell right after a handover decision
PathAwareRcPolicyHoldDown(u, rad, p_opt, svc_opt, lim) ==
    LET active_seg == ActiveSegment(u, p_opt)
        cell == TargetCell(rad, lim, active_seg)
        last == IF calls # <<>> THEN calls[Len(calls)].decision ELSE None
        target == IF last # None /\ Get(last).target_cell_id # rad.serving_cell_id
                  THEN rad.serving_cell_id ELSE cell.target
        slice == TargetSlice(u, active_seg)
        quota == RequiredQuota(rad, lim, active_seg, svc_opt, target)
    IN  IF quota.raised # NoError
        THEN [raised |-> quota.raised, decision |-> None]
        ELSE [raised |-> NoError,
              decision |-> Some(
                  [class |-> "ResourceDecision",
                   uav_id |-> u.uav_id,
                   target_cell_id |-> target,
                   slice_id |-> slice.slice,
                   prb_quota |-> ClampQuota(quota.required, lim),
                   reason |-> cell.reason \o slice.reason \o quota.reason])]

\* path_aware_rc_policy: [raised, decision]; the reason is the sequence of
\* clauses appended to reason_parts
PathAwareRcPolicy(u, rad, p_opt, svc_opt, lim) ==
    LET active_seg == ActiveSegment(u, p_opt)
        cell == TargetCell(rad, lim, active_seg)
        slice == TargetSlice(u, active_seg)
        quota == RequiredQuota(rad, lim, active_seg, svc_opt, cell.target)
    IN  IF quota.raised # NoError
        THEN [raised |-> quota.raised, decision |-> None]
        ELSE [raised |-> NoError,
              decision |-> Some(
                  [class |-> "ResourceDecision",
                   uav_id |-> u.uav_id,
                   target_cell_id |-> cell.target,
                   slice_id |-> slice.slice,
                   prb_quota |-> ClampQuota(quota.required, lim),
                   reason |-> cell.reason \o slice.reason \o quota.reason])]

\* ------------------------------------------------ simple_path_aware_policy
\* the fixed quota of the baseline policy
SimplePrbQuota == 20

\* mutant: the baseline switches to any stronger neighbor, without hysteresis
SimplePathAwarePolicyNoHysteresis(u, rad, lim) ==
    LET switch == /\ Overloaded(rad, lim)
                  /\ rad.rsrp_best_neighbor > rad.rsrp_serving
                  /\ rad.neighbor_cell_ids # <<>>
    IN  [class |-> "ResourceDecision",
         uav_id |-> u.uav_id,
         target_cell_id |-> IF switch THEN rad.neighbor_cell_ids[1]
                            ELSE rad.serving_cell_id,
         slice_id |-> u.slice_id,
         prb_quota |-> SimplePrbQuota,
         reason |-> IF switch THEN <<"baseline-handover">> ELSE <<"baseline-stay">>]

\* simple_path_aware_policy: the ResourceDecision of the baseline
SimplePathAwarePolicy(u, rad, lim) ==
    LET switch == /\ Overloaded(rad, lim)
                  /\ NeighborStronger(rad, lim)
                  /\ rad.neighbor_cell_ids # <<>>
    IN  [class |-> "ResourceDecision",
         uav_id |-> u.uav_id,
         target_cell_id |-> IF switch THEN rad.neighbor_cell_ids[1]
                            ELSE rad.serving_cell_id,
         slice_id |-> u.slice_id,
         prb_quota |-> SimplePrbQuota,
         reason |-> IF switch THEN <<"baseline-handover">> ELSE <<"baseline-stay">>]

\* ---------------------------------------------------- PolicyEngineHandler
\* the default of max_history
DefaultMaxHistory == 1000

\* seq[start:] of Python: a negative start counts from the end, -0 is 0
PySliceFrom(seq, start) ==
    LET from == IF start < 0 THEN Max2(Len(seq) + start, 0) ELSE Min2(start, Len(seq))
    IN  SubSeq(seq, from + 1, Len(seq))

\* seq[::-1]
Reversed(seq) == [i \in 1..Len(seq) |-> seq[Len(seq) + 1 - i]]

\* the dict record_decision builds; the timestamp is the arrival number
DecisionRecord(d, timestamp) ==
    [timestamp |-> timestamp, uav_id |-> d.uav_id, target_cell_id |-> d.target_cell_id,
     slice_id |-> d.slice_id, prb_quota |-> d.prb_quota, reason |-> d.reason]

\* "if len(self.decision_history) > self.max_history: ... [-self.max_history:]"
TrimHistory(history, n) ==
    IF Len(history) > n THEN PySliceFrom(history, -n) ELSE history

\* record_decision: the decision_history after the call
RecordDecision(history, n, record) == TrimHistory(Append(history, record), n)

\* get_recent_decisions: "self.decision_history[-limit:][::-1]"
GetRecentDecisions(history, n) == Reversed(PySliceFrom(history, -n))

\* ================================================================ inputs
Waypoint(i) == [index |-> i]
CellMetric(c, s, l) == [cell |-> c, sinr_db |-> s, load |-> l]

\* (sinr_db, load) pairs a radio map may hold
Metrics == {<<2, 1>>, <<1, 0>>}

\* the dicts a radio map may hold for one step: empty, one cell, or both
\* cells in either insertion order
StepDicts ==
    {<<>>}
    \cup {<<CellMetric(c, m[1], m[2])>> : c \in Cells, m \in Metrics}
    \cup UNION {UNION {{<<CellMetric(c, m[1], m[2]), CellMetric(d, k[1], k[2])>> :
                           m \in Metrics, k \in Metrics} : d \in Cells \ {c}} :
                 c \in Cells}

\* radio maps with an entry for some of the indices in S
RadioMaps(S) == UNION {[D -> StepDicts] : D \in SUBSET S}

Ascending(n) == [i \in 1..n |-> Waypoint(i - 1)]
Descending(n) == [i \in 1..n |-> Waypoint(n - i)]

\* planner configurations: floors around the drawn SINRs, default weights
Configs ==
    [sinr_min_db : {1, 2, 3}, w_sinr : {2}, w_load : {1}, ho_penalty : 0..MaxPenalty]

DefaultService == [name |-> "uav-hd-video", target_bitrate_mbps |-> 80, min_sinr_db |-> 2]
DefaultLimits ==
    [overloaded_threshold |-> OverloadedThreshold, hysteresis_db |-> HysteresisDb,
     min_prb_quota |-> MinPrbQuota, max_prb_quota |-> MaxPrbQuota]
DefaultUav == [uav_id |-> "uav-001", slice_id |-> None, path_position |-> None]
DefaultRadio ==
    [serving_cell_id |-> "cell-A", neighbor_cell_ids |-> <<>>, rsrp_serving |-> -90,
     rsrp_best_neighbor |-> -90, prb_utilization_serving |-> 30]

\* ----------------------------------------- handle_indication (server.py)
\* dict.get(key, default)
DictGet(d, key, default) == IF key \in DOMAIN d THEN d[key] ELSE default
\* dict.get(key): Optional
DictGetOpt(d, key) == IF key \in DOMAIN d THEN Some(d[key]) ELSE None

RequiredRadioKeys ==
    {"serving_cell_id", "rsrp_serving", "rsrp_best_neighbor", "prb_utilization_serving"}
RequiredSegmentKeys ==
    {"start_pos", "end_pos", "planned_cell_id", "slice_id", "base_prb_quota"}

\* parse_indication: [raised, uav, radio]; a missing key is a KeyError, which
\* is raised again as ValueError
ParseIndication(data) ==
    IF \/ "position" \notin DOMAIN data
       \/ ~({"x", "y", "z"} \subseteq DOMAIN data.position)
       \/ "radio_snapshot" \notin DOMAIN data
       \/ ~(RequiredRadioKeys \subseteq DOMAIN data.radio_snapshot)
    THEN [raised |-> "ValueError", uav |-> None, radio |-> None]
    ELSE LET radio_data == data.radio_snapshot
         IN  [raised |-> NoError,
              uav |-> Some([uav_id |-> DictGet(data, "uav_id", "unknown"),
                            slice_id |-> DictGetOpt(data, "slice_id"),
                            path_position |-> DictGetOpt(data, "path_position")]),
              radio |-> Some(
                  [serving_cell_id |-> radio_data.serving_cell_id,
                   neighbor_cell_ids |-> DictGet(radio_data, "neighbor_cell_ids", <<>>),
                   rsrp_serving |-> radio_data.rsrp_serving,
                   rsrp_best_neighbor |-> radio_data.rsrp_best_neighbor,
                   prb_utilization_serving |-> radio_data.prb_utilization_serving])]

\* parse_flight_plan: [raised, plan]
ParseFlightPlan(plan_json) ==
    LET segs == DictGet(plan_json, "segments", <<>>)
    IN  IF \E i \in 1..Len(segs) : ~(RequiredSegmentKeys \subseteq DOMAIN segs[i])
        THEN [raised |-> "ValueError", plan |-> None]
        ELSE [raised |-> NoError,
              plan |-> Some(FlightPlanPolicy(DictGet(plan_json, "uav_id", "unknown"),
                           [i \in 1..Len(segs) |->
                               [class |-> "PathSegmentPlan",
                                start_pos |-> segs[i].start_pos,
                                end_pos |-> segs[i].end_pos,
                                planned_cell_id |-> segs[i].planned_cell_id,
                                slice_id |-> segs[i].slice_id,
                                base_prb_quota |-> segs[i].base_prb_quota]]))]

\* parse_service_profile: [raised, profile]
ParseServiceProfile(profile_json) ==
    IF ~({"name", "target_bitrate_mbps"} \subseteq DOMAIN profile_json)
    THEN [raised |-> "ValueError", profile |-> None]
    ELSE [raised |-> NoError,
          profile |-> Some([name |-> profile_json.name,
                            target_bitrate_mbps |-> profile_json.target_bitrate_mbps,
                            min_sinr_db |-> DictGet(profile_json, "min_sinr_db", 0)])]

\* handle_indication: [raised, decision]; a flight plan or service profile
\* that fails to parse is logged and left out
HandleIndication(data) ==
    LET parsed == ParseIndication(data)
        flight_plan == IF "flight_plan" \in DOMAIN data
                       THEN ParseFlightPlan(data.flight_plan).plan ELSE None
        service_profile == IF "service_profile" \in DOMAIN data
                           THEN ParseServiceProfile(data.service_profile).profile
                           ELSE None
    IN  IF parsed.raised # NoError
        THEN [raised |-> parsed.raised, decision |-> None]
        ELSE PathAwareRcPolicy(Get(parsed.uav), Get(parsed.radio), flight_plan,
                               service_profile, DefaultLimits)

\* the status handle_e2_indication answers with: 400 for a body that is no
\* JSON and for a ValueError, 500 for any other exception
StatusOf(body, handled) ==
    IF body = None THEN 400
    ELSE IF handled.raised = NoError THEN 200
    ELSE IF handled.raised = "ValueError" THEN 400
    ELSE 500

PlannerIdle ==
    /\ waypoints = <<>> /\ radio_map = <<>> /\ config = None
    /\ service = DefaultService /\ cells = <<>> /\ dp_states = <<>>
EngineIdle ==
    /\ uav = DefaultUav /\ radio = DefaultRadio /\ plan = None /\ profile = None
    /\ limits = DefaultLimits /\ decision = None
CodecIdle == serialized = None /\ restored = None
EstimatorIdle ==
    /\ estimate_args = [target_bitrate_mbps |-> 0, sinr_db |-> 0]
    /\ required_prb = None
FleetIdle == fleet = <<>> /\ calls = <<>>
HandlerIdle == max_history = 0 /\ decision_history = <<>> /\ recorded = <<>>
ServerIdle == request = <<>> /\ response = <<>> /\ limit = None /\ recent = <<>>
RaceIdle == heap = <<>> /\ history_ref = 0 /\ threads = <<>>
LookupIdle == position = None /\ found = None
ExtraIdle == LookupIdle /\ baseline = None /\ RaceIdle
OtherIdle == EstimatorIdle /\ FleetIdle /\ HandlerIdle /\ ServerIdle /\ ExtraIdle

\* ====================================== specification of _choose_cells_dp
InitDp ==
    /\ pc = "init"
    /\ \E n \in 0..MaxWp :
         /\ waypoints \in {Ascending(n), Descending(n)}
         /\ radio_map \in RadioMaps(0..(n - 1))
    /\ config \in {Some(c) : c \in Configs}
    /\ service = DefaultService
    /\ cells = <<>> /\ dp_states = <<>>
    /\ policy = None /\ raised = NoError
    /\ EngineIdle /\ CodecIdle /\ OtherIdle

\* a call of _choose_cells_dp(waypoints, radio_map, config)
CallChooseCellsDp ==
    /\ pc = "init"
    /\ LET r == ChooseCellsDp(waypoints, radio_map, Get(config))
       IN  /\ pc' = IF r.raised = NoError THEN "chosen" ELSE "raised"
           /\ cells' = r.cells
           /\ dp_states' = r.dp_states
           /\ raised' = r.raised
    /\ UNCHANGED <<waypoints, radio_map, config, service, policy, engineVars, codecVars, otherVars>>

\* a call of plan_flight_path("uav-001", waypoints, radio_map, service, config)
CallPlanFlightPath ==
    /\ pc = "init"
    /\ LET r == PlanFlightPath("uav-001", waypoints, radio_map, service, config)
       IN  /\ pc' = IF r.raised = NoError THEN "planned" ELSE "raised"
           /\ cells' = r.cells
           /\ dp_states' = r.dp_states
           /\ policy' = r.policy
           /\ raised' = r.raised
    /\ UNCHANGED <<waypoints, radio_map, config, service, engineVars, codecVars, otherVars>>

NextDp == CallChooseCellsDp \/ CallPlanFlightPath
SpecDp == InitDp /\ [][NextDp]_vars

\* ================== specification of _compress_to_segments, plan_flight_path
\* sequences of n waypoints with distinct indices, in any order
RECURSIVE WaypointLists(_)
WaypointLists(n) ==
    IF n = 0 THEN {<<>>}
    ELSE UNION {{Append(ws, Waypoint(i)) :
                    i \in (0..MaxIndex) \ {ws[k].index : k \in 1..Len(ws)}} :
                ws \in WaypointLists(n - 1)}

IndicesOf(ws) == {ws[k].index : k \in 1..Len(ws)}

\* radio maps with exactly one cell, above the floor, at every waypoint
SingleCellMaps(ws) == [IndicesOf(ws) -> {<<CellMetric(c, 2, 1)>> : c \in Cells}]

\* cell sequences handed to _compress_to_segments: none, one cell per
\* waypoint, or cells left over for an empty waypoint list
CellSequences(n) ==
    {<<>>} \cup [1..n -> Cells] \cup (IF n = 0 THEN {<<c>> : c \in Cells} ELSE {})

\* radio maps handed to plan_flight_path: SingleCellMaps, and for an empty
\* waypoint list also maps that hold an entry nobody asks for
PlanRadioMaps(ws) ==
    SingleCellMaps(ws) \cup
    (IF ws = <<>> THEN [{0} -> {<<CellMetric(c, 2, 1)>> : c \in Cells}] ELSE {})

Services ==
    [name : {"uav-hd-video"}, target_bitrate_mbps : {25, 87}, min_sinr_db : {2}]

InitPlan ==
    /\ pc = "init"
    /\ \E n \in 0..MaxPath :
         /\ waypoints \in WaypointLists(n)
         /\ \/ /\ cells \in CellSequences(n)
               /\ radio_map = <<>>
               /\ config = None
               /\ service \in Services
            \/ /\ cells = <<>>
               /\ radio_map \in PlanRadioMaps(waypoints)
               /\ config \in {None, Some(DefaultConfig(1))}
               /\ service = DefaultService
    /\ dp_states = <<>>
    /\ policy = None /\ raised = NoError
    /\ EngineIdle /\ CodecIdle /\ OtherIdle

\* a call of _compress_to_segments("uav-001", waypoints, cells, service), with
\* no waypoints, no cells, or one cell per waypoint
CallCompressToSegments ==
    /\ pc = "init"
    /\ waypoints = <<>> \/ cells = <<>> \/ Len(cells) = Len(waypoints)
    /\ pc' = "compiled"
    /\ policy' = Some(CompressToSegments("uav-001", waypoints, cells, service))
    /\ UNCHANGED <<plannerVars, raised, engineVars, codecVars, otherVars>>

NextPlan == CallCompressToSegments \/ CallPlanFlightPath
SpecPlan == InitPlan /\ [][NextPlan]_vars

\* ================================== specification of path_aware_rc_policy
\* plans of n segments tiling [0, 1] evenly, any planned cell per segment
PlanOf(n, planned) ==
    FlightPlanPolicy("uav-001",
        [i \in 1..n |->
            [class |-> "PathSegmentPlan",
             start_pos |-> ((i - 1) * Unit) \div n,
             end_pos |-> (i * Unit) \div n,
             planned_cell_id |-> planned[i],
             slice_id |-> "uav-hd-video",
             base_prb_quota |-> 10 + 10 * i]])

Plans == UNION {{PlanOf(n, planned) : planned \in [1..n -> Cells]} : n \in 0..MaxSegments}

UavStates ==
    [uav_id : {"uav-001"},
     slice_id : {None, Some("slice-embb")},
     path_position : {None, Some(Unit \div 5), Some((4 * Unit) \div 5)}]

RadioSnapshots ==
    [serving_cell_id : {"cell-A"},
     neighbor_cell_ids : {<<>>, <<"cell-B">>, <<"cell-C", "cell-B">>},
     rsrp_serving : {-90, 4000},
     rsrp_best_neighbor : {-90, -87, -86, 10, 4000},
     prb_utilization_serving : {80, 95}]

Profiles ==
    [name : {"uav-hd-video"}, target_bitrate_mbps : {5, 100}, min_sinr_db : {0}]

\* (min_prb_quota, max_prb_quota) as callers may pass them
QuotaRanges == {<<MinPrbQuota, MaxPrbQuota>>, <<25, 28>>, <<50, 10>>}

Limits ==
    {[overloaded_threshold |-> OverloadedThreshold, hysteresis_db |-> HysteresisDb,
      min_prb_quota |-> q[1], max_prb_quota |-> q[2]] : q \in QuotaRanges}

InitPolicy ==
    /\ pc = "init"
    /\ uav \in UavStates
    /\ radio \in RadioSnapshots
    /\ plan \in {None} \cup {Some(p) : p \in Plans}
    /\ profile \in {None} \cup {Some(svc) : svc \in Profiles}
    /\ limits \in Limits
    /\ decision = None
    /\ policy = None /\ raised = NoError
    /\ PlannerIdle /\ CodecIdle /\ OtherIdle

\* a call of path_aware_rc_policy(uav, radio, plan, profile, **limits)
CallPathAwareRcPolicy ==
    /\ pc = "init"
    /\ LET r == PathAwareRcPolicy(uav, radio, plan, profile, limits)
       IN  /\ pc' = IF r.raised = NoError THEN "decided" ELSE "raised"
           /\ decision' = r.decision
           /\ raised' = r.raised
    /\ UNCHANGED <<plannerVars, policy, uav, radio, plan, profile, limits, codecVars,
                 otherVars>>

NextPolicy == CallPathAwareRcPolicy
SpecPolicy == InitPolicy /\ [][NextPolicy]_vars

\* ================== specification of policy_to_dict and policy_from_dict
\* (start_pos, end_pos) pairs, ordered or not: any FlightPlanPolicy is drawn
SpanValues == {<<0, Unit \div 2>>, <<Unit \div 2, Unit>>, <<Unit, 0>>}

SegmentValues ==
    {[class |-> "PathSegmentPlan", start_pos |-> sp[1], end_pos |-> sp[2],
      planned_cell_id |-> c, slice_id |-> "uav-hd-video", base_prb_quota |-> q] :
        sp \in SpanValues, c \in Cells, q \in {MinBaseQuota, 20}}

Policies ==
    UNION {{FlightPlanPolicy("uav-001", segs) : segs \in [1..n -> SegmentValues]} :
             n \in 0..MaxSegments}

\* either a policy to serialize, or a dict from elsewhere without "segments"
InitCodec ==
    /\ \/ /\ pc = "init"
          /\ policy \in {Some(p) : p \in Policies}
          /\ serialized = None
       \/ /\ pc = "serialized"
          /\ policy = None
          /\ serialized = Some([uav_id |-> "uav-001"])
    /\ restored = None
    /\ raised = NoError
    /\ PlannerIdle /\ EngineIdle /\ OtherIdle

\* a call of policy_to_dict(policy)
CallPolicyToDict ==
    /\ pc = "init"
    /\ pc' = "serialized"
    /\ serialized' = Some(PolicyToDict(Get(policy)))
    /\ UNCHANGED <<plannerVars, policy, raised, engineVars, restored, otherVars>>

\* a call of policy_from_dict(serialized)
CallPolicyFromDict ==
    /\ pc = "serialized"
    /\ pc' = "restored"
    /\ restored' = Some(PolicyFromDict(Get(serialized)))
    /\ UNCHANGED <<plannerVars, policy, raised, engineVars, serialized, otherVars>>

NextCodec == CallPolicyToDict \/ CallPolicyFromDict
SpecCodec == InitCodec /\ [][NextCodec]_vars

\* ================================ specification of estimate_required_prb
MaxBitrateSteps == 20
\* target bitrates in tenths of Mbps: -0.5, 0, 0.5, ... Mbps
Bitrates == {5 * k : k \in -1..MaxBitrateSteps}
\* SINR in dB: below the floor, on it, above it, and far above it
Sinrs == {-20, -10, -5, 0, 5, 10, 15, 20, 30, 4000}

InitEstimate ==
    /\ pc = "init"
    /\ estimate_args \in [target_bitrate_mbps : Bitrates, sinr_db : Sinrs]
    /\ required_prb = None
    /\ policy = None /\ raised = NoError
    /\ PlannerIdle /\ EngineIdle /\ CodecIdle
    /\ FleetIdle /\ HandlerIdle /\ ServerIdle /\ ExtraIdle

\* a call of estimate_required_prb(target_bitrate_mbps, sinr_db)
CallEstimateRequiredPrb ==
    /\ pc = "init"
    /\ LET r == EstimateRequiredPrb(estimate_args.target_bitrate_mbps,
                                    estimate_args.sinr_db)
       IN  /\ pc' = IF r.raised = NoError THEN "estimated" ELSE "raised"
           /\ required_prb' = IF r.raised = NoError THEN Some(r.prb) ELSE None
           /\ raised' = r.raised
    /\ UNCHANGED <<plannerVars, policy, engineVars, codecVars, estimate_args,
                   fleetVars, handlerVars, serverVars, extraVars>>

NextEstimate == CallEstimateRequiredPrb
SpecEstimate == InitEstimate /\ [][NextEstimate]_vars

\* ================================= specification of PolicyEngineHandler
MaxHistory == 2
MaxRecords == 4
MaxLimit == 3

\* a ResourceDecision for the UAV id, as the policy returns it
DecisionFor(id) ==
    Get(PathAwareRcPolicy([DefaultUav EXCEPT !.uav_id = id], DefaultRadio, None, None,
                          DefaultLimits).decision)

\* PolicyEngineHandler(max_history)
InitHandler ==
    /\ pc = "init"
    /\ max_history \in 0..MaxHistory
    /\ decision_history = <<>>
    /\ recorded = <<>>
    /\ limit = None /\ recent = <<>>
    /\ request = <<>> /\ response = <<>>
    /\ policy = None /\ raised = NoError
    /\ PlannerIdle /\ EngineIdle /\ CodecIdle /\ EstimatorIdle /\ FleetIdle
    /\ ExtraIdle

\* handler.record_decision(decision)
CallRecordDecision ==
    /\ Len(recorded) < MaxRecords
    /\ \E id \in UavIds :
         LET record == DecisionRecord(DecisionFor(id), Len(recorded) + 1)
         IN  /\ decision_history' = RecordDecision(decision_history, max_history, record)
             /\ recorded' = Append(recorded, record)
    /\ pc' = "recorded"
    /\ UNCHANGED <<plannerVars, policy, raised, engineVars, codecVars, estimatorVars,
                   fleetVars, max_history, serverVars, extraVars>>

\* handler.get_recent_decisions(limit)
CallGetRecentDecisions ==
    /\ \E n \in 0..MaxLimit :
         /\ limit' = Some(n)
         /\ recent' = GetRecentDecisions(decision_history, n)
    /\ pc' = "queried"
    /\ UNCHANGED <<plannerVars, policy, raised, engineVars, codecVars, estimatorVars,
                   fleetVars, handlerVars, request, response, extraVars>>

NextHandler == CallRecordDecision \/ CallGetRecentDecisions
SpecHandler == InitHandler /\ [][NextHandler]_vars

\* ================================ specification of POST /e2/indication
MaxRequests == 3

HotRadio ==
    [serving_cell_id |-> "cell-A", neighbor_cell_ids |-> <<"cell-B">>,
     rsrp_serving |-> -90, rsrp_best_neighbor |-> -80, prb_utilization_serving |-> 95]
VideoProfile == [name |-> "uav-hd-video", target_bitrate_mbps |-> 100]
PlanJson ==
    [uav_id |-> "uav-001",
     segments |-> <<[start_pos |-> 0, end_pos |-> Unit, planned_cell_id |-> "cell-B",
                     slice_id |-> "uav-hd-video", base_prb_quota |-> 20]>>]

\* a complete indication
Indication(id) ==
    [uav_id |-> id, position |-> [x |-> 0, y |-> 0, z |-> 100],
     radio_snapshot |-> HotRadio]

\* d without the key, d with one more key
Without(d, key) == [k \in DOMAIN d \ {key} |-> d[k]]
With(d, key, value) == [k \in DOMAIN d \cup {key} |-> IF k = key THEN value ELSE d[k]]

\* request bodies: no JSON at all, complete indications for two UAVs, with
\* and without the optional keys, and indications lacking a required key
Bodies ==
    LET full == Indication("uav-001")
    IN  {None}
        \cup {Some(Indication(id)) : id \in UavIds}
        \cup {Some(Without(full, "uav_id")),
              Some(Without(full, "position")),
              Some(Without(full, "radio_snapshot")),
              Some(With(full, "radio_snapshot", Without(HotRadio, "rsrp_serving"))),
              Some(With(full, "service_profile", VideoProfile)),
              Some(With(With(full, "service_profile", VideoProfile), "radio_snapshot",
                        [HotRadio EXCEPT !.rsrp_serving = 4000])),
              Some(With(With(full, "flight_plan", PlanJson), "path_position",
                        Unit \div 5)),
              Some(With(full, "flight_plan",
                        [segments |-> <<[start_pos |-> 0, end_pos |-> Unit]>>]))}

\* create_app: handler = PolicyEngineHandler()
InitServer ==
    /\ pc = "init"
    /\ max_history = DefaultMaxHistory
    /\ decision_history = <<>>
    /\ recorded = <<>>
    /\ request = <<>> /\ response = <<>>
    /\ limit = None /\ recent = <<>>
    /\ policy = None /\ raised = NoError
    /\ PlannerIdle /\ EngineIdle /\ CodecIdle /\ EstimatorIdle /\ FleetIdle
    /\ ExtraIdle

\* handle_e2_indication: one POST /e2/indication with the body
PostE2Indication ==
    /\ Len(request) < MaxRequests
    /\ \E body \in Bodies :
         LET handled == IF body = None THEN [raised |-> NoError, decision |-> None]
                        ELSE HandleIndication(Get(body))
             status == StatusOf(body, handled)
         IN  /\ request' = Append(request, body)
             /\ response' = Append(response, status)
             /\ IF status = 200
                THEN LET record == DecisionRecord(Get(handled.decision),
                                                  Len(recorded) + 1)
                     IN  /\ decision_history' =
                                RecordDecision(decision_history, max_history, record)
                         /\ recorded' = Append(recorded, record)
                ELSE UNCHANGED <<decision_history, recorded>>
    /\ pc' = "answered"
    /\ UNCHANGED <<plannerVars, policy, raised, engineVars, codecVars, estimatorVars,
                   fleetVars, max_history, limit, recent, extraVars>>

NextServer == PostE2Indication
SpecServer == InitServer /\ [][NextServer]_vars

\* ================= specification of successive path_aware_rc_policy calls
MaxCalls == 3

\* the argument objects a caller holds for one UAV
ArgumentSets(id) ==
    [uav : [uav_id : {id}, slice_id : {None}, path_position : {None, Some(Unit \div 5)}],
     radio : [serving_cell_id : {"cell-A"}, neighbor_cell_ids : {<<"cell-B">>},
              rsrp_serving : {-90}, rsrp_best_neighbor : {-90, -86},
              prb_utilization_serving : {95}],
     plan : {None, Some(PlanOf(1, <<"cell-B">>))},
     profile : {None, Some([name |-> "uav-hd-video", target_bitrate_mbps |-> 100,
                            min_sinr_db |-> 0])},
     limits : {DefaultLimits}]

InitFleet ==
    /\ pc = "init"
    /\ fleet \in {f \in [UavIds -> UNION {ArgumentSets(id) : id \in UavIds}] :
                     \A id \in UavIds : f[id].uav.uav_id = id}
    /\ calls = <<>>
    /\ policy = None /\ raised = NoError
    /\ PlannerIdle /\ EngineIdle /\ CodecIdle
    /\ EstimatorIdle /\ HandlerIdle /\ ServerIdle /\ ExtraIdle

\* one more call of path_aware_rc_policy, for any UAV of the fleet, on the
\* objects held for it; the code assigns to no attribute of its arguments and
\* to no module-level name
CallPolicyForUav ==
    /\ Len(calls) < MaxCalls
    /\ \E id \in DOMAIN fleet :
         LET a == fleet[id]
             r == PathAwareRcPolicy(a.uav, a.radio, a.plan, a.profile, a.limits)
         IN  /\ pc' = IF r.raised = NoError THEN "decided" ELSE "raised"
             /\ calls' = Append(calls, [args |-> a, raised |-> r.raised,
                                         decision |-> r.decision])
    /\ fleet' = fleet
    /\ UNCHANGED <<plannerVars, policy, raised, engineVars, codecVars,
                   estimatorVars, handlerVars, serverVars, extraVars>>

NextFleet == CallPolicyForUav
SpecFleet == InitFleet /\ [][NextFleet]_vars

\* ================================== specification of find_active_segment
\* (start_pos, end_pos) pairs of plans from anywhere: overlapping, with gaps,
\* starting after 0, ending before 1, or with start_pos > end_pos
LookupSpans ==
    {<<0, Unit \div 4>>, <<0, Unit>>, <<Unit \div 2, Unit>>, <<Unit, 0>>}

LookupSegments ==
    {[class |-> "PathSegmentPlan", start_pos |-> sp[1], end_pos |-> sp[2],
      planned_cell_id |-> c, slice_id |-> "uav-hd-video",
      base_prb_quota |-> MinBaseQuota] : sp \in LookupSpans, c \in Cells}

LookupPlans ==
    UNION {{FlightPlanPolicy("uav-001", segs) : segs \in [1..n -> LookupSegments]} :
             n \in 0..MaxSegments}

\* path positions: before 0, on and between the span ends, 1.0 and beyond
LookupPositions ==
    {-1, 0, Unit \div 4, Unit \div 3, Unit \div 2, Unit - 1, Unit, 2 * Unit}

InitLookup ==
    /\ pc = "init"
    /\ plan \in {Some(p) : p \in LookupPlans}
    /\ position \in {Some(x) : x \in LookupPositions}
    /\ found = None
    /\ uav = DefaultUav /\ radio = DefaultRadio /\ profile = None
    /\ limits = DefaultLimits /\ decision = None
    /\ policy = None /\ raised = NoError
    /\ PlannerIdle /\ CodecIdle
    /\ EstimatorIdle /\ FleetIdle /\ HandlerIdle /\ ServerIdle
    /\ baseline = None /\ RaceIdle

\* a call of find_active_segment(plan, position)
CallFindActiveSegment ==
    /\ pc = "init"
    /\ plan # None /\ position # None
    /\ pc' = "found"
    /\ found' = FindActiveSegment(Get(plan), Get(position))
    /\ UNCHANGED <<plannerVars, policy, raised, engineVars, codecVars, estimatorVars,
                   fleetVars, handlerVars, serverVars, position, baseline, raceVars>>

NextLookup == CallFindActiveSegment
SpecLookup == InitLookup /\ [][NextLookup]_vars

\* ============== specification of a flight tracked against its compiled plan
\* waypoints with indices 0..n-1 in either order, one cell per waypoint
InitTrack ==
    /\ pc = "init"
    /\ \E n \in 1..MaxPath :
         /\ waypoints \in {Ascending(n), Descending(n)}
         /\ cells \in [1..n -> Cells]
    /\ radio_map = <<>>
    /\ config = None
    /\ service \in Services
    /\ dp_states = <<>>
    /\ policy = None /\ raised = NoError
    /\ EngineIdle /\ CodecIdle /\ OtherIdle

\* the lookup of the mock near-RT loop at one waypoint of the flight:
\* path_position = wp.index / max(1, len(waypoints) - 1), then
\* find_active_segment(policy, path_position)
TrackWaypoint ==
    /\ pc = "compiled"
    /\ \E i \in 1..Len(waypoints) :
         LET at == PosOf(waypoints[i].index, Max2(1, Len(waypoints) - 1))
         IN  /\ position' = Some(at)
             /\ found' = FindActiveSegment(Get(policy), at)
    /\ pc' = "tracked"
    /\ UNCHANGED <<plannerVars, policy, raised, engineVars, codecVars, estimatorVars,
                   fleetVars, handlerVars, serverVars, baseline, raceVars>>

NextTrack == CallCompressToSegments \/ TrackWaypoint
SpecTrack == InitTrack /\ [][NextTrack]_vars

\* ====== specification of path_aware_rc_policy beside simple_path_aware_policy
\* thresholds and hysteresis on and off the drawn utilisations and RSRP gaps
BaselineLimits ==
    {[overloaded_threshold |-> th, hysteresis_db |-> hy,
      min_prb_quota |-> MinPrbQuota, max_prb_quota |-> MaxPrbQuota] :
        th \in {OverloadedThreshold, 95}, hy \in {HysteresisDb, 4}}

\* no plan, a plan without segments, or a plan with one segment
BaselinePlans ==
    {None, Some(PlanOf(0, <<>>)), Some(PlanOf(1, <<"cell-B">>))}

InitBaseline ==
    /\ pc = "init"
    /\ uav \in UavStates
    /\ radio \in RadioSnapshots
    /\ plan \in BaselinePlans
    /\ profile \in {None, Some([name |-> "uav-hd-video", target_bitrate_mbps |-> 100,
                                 min_sinr_db |-> 0])}
    /\ limits \in BaselineLimits
    /\ decision = None
    /\ baseline = None
    /\ policy = None /\ raised = NoError
    /\ PlannerIdle /\ CodecIdle
    /\ EstimatorIdle /\ FleetIdle /\ HandlerIdle /\ ServerIdle
    /\ LookupIdle /\ RaceIdle

\* a call of simple_path_aware_policy(uav, radio, overloaded_threshold,
\* hysteresis_db) with the arguments of the path_aware_rc_policy call
CallSimplePathAwarePolicy ==
    /\ baseline = None
    /\ baseline' = Some(SimplePathAwarePolicy(uav, radio, limits))
    /\ UNCHANGED <<pc, plannerVars, policy, raised, engineVars, codecVars, estimatorVars,
                   fleetVars, handlerVars, serverVars, lookupVars, raceVars>>

NextBaseline == CallPathAwareRcPolicy \/ CallSimplePathAwarePolicy
SpecBaseline == InitBaseline /\ [][NextBaseline]_vars

\* ============ specification of record_decision in concurrent request threads
\* the UAV of the indication each request thread handles
Requests == <<"uav-001", "uav-002">>

\* a thread before its call of record_decision
IdleThread == [at |-> "start", record |-> None, ref |-> 0]

\* the records earlier requests left, one after the other
RECURSIVE EarlierRecords(_)
EarlierRecords(k) ==
    IF k = 0 THEN <<>>
    ELSE Append(EarlierRecords(k - 1), DecisionRecord(DecisionFor("uav-001"), k))

\* one handler shared by the request threads (create_app), its history filled
\* by earlier requests up to some length within max_history
InitRace ==
    /\ pc = "init"
    /\ max_history \in 1..MaxHistory
    /\ \E k \in 0..max_history :
         /\ heap = <<EarlierRecords(k)>>
         /\ decision_history = EarlierRecords(k)
         /\ recorded = EarlierRecords(k)
    /\ history_ref = 1
    /\ threads = [t \in 1..Len(Requests) |-> IdleThread]
    /\ policy = None /\ raised = NoError
    /\ PlannerIdle /\ EngineIdle /\ CodecIdle /\ EstimatorIdle /\ FleetIdle
    /\ ServerIdle /\ LookupIdle /\ baseline = None

\* one step of thread t: its new locals, the list objects, the list
\* self.decision_history names, and the records appended so far
RaceStep(t, thread, objects, current, log) ==
    /\ threads' = [threads EXCEPT ![t] = thread]
    /\ heap' = objects
    /\ history_ref' = current
    /\ decision_history' = objects[current]
    /\ recorded' = log
    /\ pc' = IF \A u \in DOMAIN threads :
                   (IF u = t THEN thread ELSE threads[u]).at = "done"
             THEN "raced" ELSE "racing"
    /\ UNCHANGED <<plannerVars, policy, raised, engineVars, codecVars, estimatorVars,
                   fleetVars, max_history, serverVars, lookupVars, baseline>>

\* "record = {...}" and the evaluation of self.decision_history for the append
BuildRecord(t) ==
    /\ threads[t].at = "start"
    /\ LET built == Cardinality({u \in DOMAIN threads : threads[u].at = "loaded"})
           record == DecisionRecord(DecisionFor(Requests[t]), Len(recorded) + built + 1)
       IN  RaceStep(t, [at |-> "loaded", record |-> Some(record), ref |-> history_ref],
                    heap, history_ref, recorded)

\* ".append(record)" on the list that was evaluated
AppendRecord(t) ==
    /\ threads[t].at = "loaded"
    /\ LET record == Get(threads[t].record)
       IN  RaceStep(t, [threads[t] EXCEPT !.at = "appended"],
                    [heap EXCEPT ![threads[t].ref] = Append(@, record)],
                    history_ref, Append(recorded, record))

\* the evaluation of self.decision_history in "len(self.decision_history)"
LoadForLen(t) ==
    /\ threads[t].at = "appended"
    /\ RaceStep(t, [threads[t] EXCEPT !.at = "measuring", !.ref = history_ref],
                heap, history_ref, recorded)

\* "if len(...) > self.max_history"
CompareLen(t) ==
    /\ threads[t].at = "measuring"
    /\ RaceStep(t, [threads[t] EXCEPT
                       !.at = IF Len(heap[threads[t].ref]) > max_history
                              THEN "over" ELSE "done"],
                heap, history_ref, recorded)

\* the evaluation of self.decision_history on the right of the assignment
LoadForSlice(t) ==
    /\ threads[t].at = "over"
    /\ RaceStep(t, [threads[t] EXCEPT !.at = "slicing", !.ref = history_ref],
                heap, history_ref, recorded)

\* "[-self.max_history :]": a new list object
SliceHistory(t) ==
    /\ threads[t].at = "slicing"
    /\ RaceStep(t, [threads[t] EXCEPT !.at = "sliced", !.ref = Len(heap) + 1],
                Append(heap, PySliceFrom(heap[threads[t].ref], -max_history)),
                history_ref, recorded)

\* "self.decision_history = ..."
StoreHistory(t) ==
    /\ threads[t].at = "sliced"
    /\ RaceStep(t, [threads[t] EXCEPT !.at = "done"], heap, threads[t].ref, recorded)

NextRace ==
    \E t \in DOMAIN threads :
        \/ BuildRecord(t)
        \/ AppendRecord(t)
        \/ LoadForLen(t)
        \/ CompareLen(t)
        \/ LoadForSlice(t)
        \/ SliceHistory(t)
        \/ StoreHistory(t)
SpecRace == InitRace /\ [][NextRace]_vars

\* ============================================= the calls taken together
Init ==
    \/ InitDp \/ InitPlan \/ InitPolicy \/ InitCodec
    \/ InitEstimate \/ InitHandler \/ InitServer \/ InitFleet
    \/ InitLookup \/ InitTrack \/ InitRace \/ InitBaseline
Next ==
    \/ CallChooseCellsDp
    \/ CallCompressToSegments
    \/ CallPlanFlightPath
    \/ CallPathAwareRcPolicy
    \/ CallPolicyToDict
    \/ CallPolicyFromDict
    \/ CallEstimateRequiredPrb
    \/ CallRecordDecision
    \/ CallGetRecentDecisions
    \/ PostE2Indication
    \/ CallPolicyForUav
    \/ CallFindActiveSegment
    \/ TrackWaypoint
    \/ NextRace
    \/ CallSimplePathAwarePolicy
Spec == Init /\ [][Next]_vars

\* ==================================================== claims: the planner
\* the waypoint indices in path order
StepsOfPath == LET sorted == SortByIndex(waypoints)
               IN  [i \in 1..Len(sorted) |-> sorted[i].index]

\* the radio map holds at least one cell for every waypoint
FullCoverage == \A i \in IndicesOf(waypoints) : GetCellsForStep(radio_map, i) # <<>>

CellsAtStep(step) ==
    LET d == GetCellsForStep(radio_map, step) IN {d[k].cell : k \in 1..Len(d)}

MetricAtStep(step, c) ==
    LET d == GetCellsForStep(radio_map, step)
    IN  d[CHOOSE k \in 1..Len(d) : d[k].cell = c]

QualifyingCells(cfg, step) ==
    {c \in CellsAtStep(step) : MetricAtStep(step, c).sinr_db >= cfg.sinr_min_db}

MaxSinrCells(step) ==
    {c \in CellsAtStep(step) :
        \A d \in CellsAtStep(step) :
            MetricAtStep(step, d).sinr_db <= MetricAtStep(step, c).sinr_db}

\* the candidates of a step as the claim defines them; where no cell meets
\* the floor the single candidate is the max-SINR cell the plan names
ClaimCandidates(cfg, step, named) ==
    IF QualifyingCells(cfg, step) # {} THEN QualifyingCells(cfg, step)
    ELSE {named} \cap MaxSinrCells(step)

Handovers(seq) == Cardinality({i \in 2..Len(seq) : seq[i] # seq[i - 1]})

RECURSIVE SumUtility(_, _, _, _)
SumUtility(cfg, steps, seq, i) ==
    IF i = 0 THEN 0
    ELSE SumUtility(cfg, steps, seq, i - 1)
         + Utility(cfg, MetricAtStep(steps[i], seq[i]).sinr_db,
                        MetricAtStep(steps[i], seq[i]).load)

PathScore(cfg, steps, seq) ==
    SumUtility(cfg, steps, seq, Len(seq)) - cfg.ho_penalty * Handovers(seq)

\* every sequence that picks one candidate per step
CandidatePaths(cfg, steps, named) ==
    {seq \in [1..Len(steps) -> Cells] :
        \A i \in 1..Len(steps) : seq[i] \in ClaimCandidates(cfg, steps[i], named[i])}

\* C1: with full radio coverage the cell sequence of _choose_cells_dp picks
\* one candidate per step and no sequence of candidates scores higher
\* (sum of utilities minus ho_penalty per handover).
C1_DpOptimal ==
    (pc # "init" /\ waypoints # <<>> /\ FullCoverage) =>
        /\ raised = NoError
        /\ Len(cells) = Len(waypoints)
        /\ cells \in CandidatePaths(Get(config), StepsOfPath, cells)
        /\ \A seq \in CandidatePaths(Get(config), StepsOfPath, cells) :
               PathScore(Get(config), StepsOfPath, seq)
                   <= PathScore(Get(config), StepsOfPath, cells)

\* C1 witness: a two-step plan with two candidates at each step, a positive
\* handover penalty, and a candidate sequence that scores strictly lower
C1_Witness ==
    /\ pc = "chosen" /\ Len(cells) >= 2
    /\ Get(config).ho_penalty > 0
    /\ \A i \in 1..Len(cells) :
           Cardinality(ClaimCandidates(Get(config), StepsOfPath[i], cells[i])) = 2
    /\ Handovers(cells) > 0
    /\ \E seq \in CandidatePaths(Get(config), StepsOfPath, cells) :
           PathScore(Get(config), StepsOfPath, seq)
               < PathScore(Get(config), StepsOfPath, cells)

\* the waypoint indices the radio map has no entry for
MissingIndices == IndicesOf(waypoints) \ DOMAIN radio_map

\* a failed call leaves through the exception: nothing is returned
NothingReturned == pc = "raised" /\ cells = <<>> /\ policy = None

\* C6 as stated: the call fails with ValueError iff there is a waypoint whose
\* index has no entry in the radio map, and then nothing is returned.
C6_FailsIffNoEntry ==
    pc # "init" =>
        /\ (raised = "ValueError") <=> (waypoints # <<>> /\ MissingIndices # {})
        /\ raised \in {NoError, "ValueError"}
        /\ raised # NoError => NothingReturned

\* C6 amended: the call fails with ValueError iff there is a waypoint whose
\* index has no entry, or an entry without cells, in the radio map, and then
\* nothing is returned.
C6_FailsIffNoMetrics ==
    pc # "init" =>
        /\ (raised = "ValueError") <=> (waypoints # <<>> /\ ~FullCoverage)
        /\ raised \in {NoError, "ValueError"}
        /\ raised # NoError => NothingReturned

\* C6 witness: the first step has cells, a later step has no entry, and the
\* call failed
C6_Witness ==
    /\ pc = "raised" /\ raised = "ValueError"
    /\ Len(waypoints) >= 2
    /\ GetCellsForStep(radio_map, StepsOfPath[1]) # <<>>
    /\ MissingIndices # {}

\* the radio maps holding the same cell metrics, inserted in any order
SameMetrics(d, e) ==
    /\ Len(d) = Len(e)
    /\ {d[k] : k \in 1..Len(d)} = {e[k] : k \in 1..Len(e)}

Reorderings(rm) ==
    {other \in [DOMAIN rm -> StepDicts] :
        \A i \in DOMAIN rm : SameMetrics(other[i], rm[i])}

\* C10: the cell sequence does not depend on the insertion order of the
\* radio map: every radio map with the same metrics yields the same cells.
C10_OrderIndependent ==
    pc = "chosen" =>
        \A other \in Reorderings(radio_map) :
            ChooseCellsDp(waypoints, other, Get(config)).cells = cells

\* ---------------------------------------------------------- compilation
Segments == Get(policy).segments

\* C4: the segments compiled from a non-empty path start at 0.0, end at 1.0
\* (up to the epsilon nudge), are ordered, and each starts where the
\* previous one ends.
C4_SegmentsCoverPath ==
    (pc = "compiled" /\ waypoints # <<>> /\ cells # <<>>) =>
        /\ Segments # <<>>
        /\ Segments[1].start_pos = 0
        /\ Segments[Len(Segments)].end_pos \in (Unit - Epsilon)..Unit
        /\ \A i \in 1..Len(Segments) : Segments[i].start_pos <= Segments[i].end_pos
        /\ \A i \in 2..Len(Segments) : Segments[i].start_pos = Segments[i - 1].end_pos

\* C5: every segment of a policy returned by plan_flight_path lies in [0, 1]
\* with start_pos <= end_pos.
C5_SegmentsWithinPath ==
    pc = "planned" =>
        \A i \in 1..Len(Segments) :
            /\ 0 <= Segments[i].start_pos
            /\ Segments[i].start_pos <= Segments[i].end_pos
            /\ Segments[i].end_pos <= Unit

\* the cells of the maximal runs of cs, in order
RECURSIVE Runs(_)
Runs(cs) ==
    IF cs = <<>> THEN <<>>
    ELSE LET front == Runs(SubSeq(cs, 1, Len(cs) - 1))
         IN  IF Len(cs) > 1 /\ cs[Len(cs)] = cs[Len(cs) - 1] THEN front
             ELSE Append(front, cs[Len(cs)])

PlannedCells == [k \in 1..Len(Segments) |-> Segments[k].planned_cell_id]
Compiled == pc = "compiled" /\ (cells = <<>> \/ Len(cells) = Len(waypoints))
RunsMerged ==
    /\ Len(Segments) = 1 + Handovers(cells)
    /\ \A k \in 2..Len(Segments) :
           Segments[k].planned_cell_id # Segments[k - 1].planned_cell_id
    /\ PlannedCells = Runs(cells)
    /\ (\A i \in 1..Len(cells) : cells[i] = cells[1]) => Len(Segments) = 1

\* C11 as stated: _compress_to_segments makes one segment of every maximal run
\* of equal consecutive cells: the number of segments is 1 plus the number of
\* positions where the cell differs from the previous one, adjacent segments
\* name different cells, and a sequence of one repeated cell gives exactly one
\* segment; for every cell sequence, the empty one included.
C11_RunsMerged == Compiled => RunsMerged

\* C11 amended: the same for a non-empty waypoint list with one cell per
\* waypoint; an empty cell sequence gives zero segments, not one.
C11_RunsMergedNonEmpty ==
    Compiled =>
        /\ cells # <<>> => RunsMerged
        /\ cells = <<>> => Segments = <<>>

\* C11 witness: three waypoints whose cells form two runs were compiled into
\* two segments
C11_Witness ==
    /\ pc = "compiled"
    /\ cells = <<"cell-A", "cell-A", "cell-B">>
    /\ PlannedCells = <<"cell-A", "cell-B">>

\* C20: zero waypoints are not an error: _choose_cells_dp returns the empty
\* sequence whatever the radio map holds (nothing, or entries nobody asks
\* for), and _compress_to_segments returns a policy without segments whenever
\* the waypoint list or the cell sequence is empty.
C20_EmptyInputNoError ==
    /\ (pc = "raised") => waypoints # <<>>
    /\ (pc = "planned" /\ waypoints = <<>>) =>
           /\ raised = NoError
           /\ cells = <<>>
           /\ dp_states = <<>>
           /\ Get(policy) = FlightPlanPolicy("uav-001", <<>>)
    /\ (pc = "compiled" /\ (waypoints = <<>> \/ cells = <<>>)) =>
           /\ raised = NoError
           /\ Get(policy) = FlightPlanPolicy("uav-001", <<>>)
    /\ \A rm \in PlanRadioMaps(<<>>), cfg \in Configs :
           ChooseCellsDp(<<>>, rm, cfg) =
               [raised |-> NoError, cells |-> <<>>, dp_states |-> <<>>]

\* C20 witness: a plan was made for zero waypoints from a radio map that
\* holds an entry, and it has no segments
C20_Witness ==
    /\ pc = "planned"
    /\ waypoints = <<>>
    /\ radio_map # <<>>
    /\ Segments = <<>>

\* ================================================ claims: the policy engine
Decision == Get(decision)
Active == ActiveSegment(uav, plan)
SwitchConditions ==
    /\ radio.prb_utilization_serving > limits.overloaded_threshold
    /\ radio.rsrp_best_neighbor - radio.rsrp_serving > limits.hysteresis_db

\* C2: with an active segment the decision leaves the serving cell iff the
\* planned cell differs from it, the serving cell is above the overload
\* threshold and the best neighbor is more than hysteresis_db stronger; the
\* target is then the planned cell, and otherwise the serving cell.
C2_PlanSwitchIffThresholds ==
    (pc = "decided" /\ Active # None) =>
        LET planned == Get(Active).planned_cell_id
            switch == planned # radio.serving_cell_id /\ SwitchConditions
        IN  /\ (Decision.target_cell_id # radio.serving_cell_id) <=> switch
            /\ switch => Decision.target_cell_id = planned
            /\ ~switch => Decision.target_cell_id = radio.serving_cell_id

\* C2 witness: an active segment plans another cell and the decision follows it
C2_Witness ==
    /\ pc = "decided" /\ Active # None
    /\ Decision.target_cell_id = Get(Active).planned_cell_id
    /\ Decision.target_cell_id # radio.serving_cell_id

\* C3 as stated: min_prb_quota <= prb_quota <= max_prb_quota for all inputs.
C3_QuotaWithinBounds ==
    pc = "decided" =>
        /\ limits.min_prb_quota <= Decision.prb_quota
        /\ Decision.prb_quota <= limits.max_prb_quota

\* C3 amended: prb_quota >= min_prb_quota for all inputs; prb_quota <=
\* max_prb_quota whenever min_prb_quota <= max_prb_quota, and prb_quota =
\* min_prb_quota when the caller passes min_prb_quota > max_prb_quota.
C3_QuotaWithinOrderedBounds ==
    pc = "decided" =>
        /\ limits.min_prb_quota <= Decision.prb_quota
        /\ limits.min_prb_quota <= limits.max_prb_quota
               => Decision.prb_quota <= limits.max_prb_quota
        /\ limits.min_prb_quota > limits.max_prb_quota
               => Decision.prb_quota = limits.min_prb_quota

\* C3 witness: the estimate for the service exceeds max_prb_quota and the
\* decision carries max_prb_quota
C3_Witness ==
    /\ pc = "decided" /\ profile # None
    /\ limits.min_prb_quota < limits.max_prb_quota
    /\ EstimateRequiredPrb(Get(profile).target_bitrate_mbps, radio.rsrp_serving).prb
           > limits.max_prb_quota
    /\ Decision.prb_quota = limits.max_prb_quota

\* C7: path_aware_rc_policy returns a decision and never raises.
C7_NeverRaises ==
    pc # "init" => (raised = NoError /\ decision # None)

\* C8: without an active segment the target is the first listed neighbor iff
\* the serving cell is above the overload threshold, the best neighbor is more
\* than hysteresis_db stronger and a neighbor is listed; otherwise the target
\* is the serving cell.
C8_ReactiveSwitch ==
    (pc = "decided" /\ (plan = None \/ uav.path_position = None
                                   \/ Get(plan).segments = <<>>)) =>
        IF SwitchConditions /\ radio.neighbor_cell_ids # <<>>
        THEN Decision.target_cell_id = Head(radio.neighbor_cell_ids)
        ELSE Decision.target_cell_id = radio.serving_cell_id

\* C8 witness: a plan without segments, two neighbors listed, and the
\* decision hands over to the first of them
C8_Witness ==
    /\ pc = "decided" /\ plan # None /\ uav.path_position # None
    /\ Get(plan).segments = <<>>
    /\ Len(radio.neighbor_cell_ids) = 2
    /\ Decision.target_cell_id = radio.neighbor_cell_ids[1]

BaseQuota == Get(Active).base_prb_quota
BaseWithinLimits ==
    limits.min_prb_quota <= BaseQuota /\ BaseQuota <= limits.max_prb_quota

\* C12: when a decision is made with an active segment whose base_prb_quota
\* lies within [min_prb_quota, max_prb_quota], its prb_quota is at least that
\* base_prb_quota, with or without a service profile, staying or switching.
C12_QuotaAtLeastBase ==
    (pc = "decided" /\ Active # None /\ BaseWithinLimits) =>
        Decision.prb_quota >= BaseQuota

\* C12 witness: a service whose estimate is below the base quota of the
\* active segment, a switch to the planned cell, and the base quota granted
C12_Witness ==
    /\ pc = "decided"
    /\ Active # None
    /\ BaseWithinLimits
    /\ profile # None
    /\ EstimateRequiredPrb(Get(profile).target_bitrate_mbps,
                           radio.rsrp_best_neighbor).prb < BaseQuota
    /\ Decision.target_cell_id # radio.serving_cell_id
    /\ Decision.prb_quota = BaseQuota

\* C13: the slice_id of the decision is uav.slice_id when that is present
\* (whatever slice an active segment names), else the slice_id of the active
\* segment when there is one, else None.
C13_SlicePriority ==
    pc = "decided" =>
        Decision.slice_id =
            IF uav.slice_id # None THEN uav.slice_id
            ELSE IF Active # None THEN Some(Get(Active).slice_id)
            ELSE None

\* C13 witness: the UAV carries a slice, the active segment names another
\* one, and the decision carries the slice of the UAV
C13_Witness ==
    /\ pc = "decided"
    /\ uav.slice_id # None
    /\ Active # None
    /\ Some(Get(Active).slice_id) # uav.slice_id
    /\ Decision.slice_id = uav.slice_id

\* the clauses each branch of path_aware_rc_policy can append
TargetClauses ==
    {"follow-plan", "plan-neighbor-not-better", "plan-serving-not-overloaded",
     "serving-matches-plan", "no-active-segment", "reactive-handover", "reactive-stay"}
SliceClauses == {"uav-slice", "segment-slice", "no-slice"}
QuotaClauses ==
    {"estimate-from-serving", "estimate-from-neighbor", "sinr-below-minimum",
     "service-estimate", "no-service"}

ClausesOf(reason) == {reason[i] : i \in 1..Len(reason)}

\* target clauses, then one slice clause, then quota clauses
InBranchOrder(reason) ==
    \E a \in 1..Len(reason) :
        /\ a + 1 < Len(reason)
        /\ \A i \in 1..a : reason[i] \in TargetClauses
        /\ reason[a + 1] \in SliceClauses
        /\ \A i \in (a + 2)..Len(reason) : reason[i] \in QuotaClauses

\* the reactive branch wants a switch and has no neighbor to switch to
EmptyNeighborsPreventSwitch ==
    Active = None /\ SwitchConditions /\ radio.neighbor_cell_ids = <<>>

\* the same call with a neighbor listed and the serving cell not overloaded:
\* no switch is wanted there and the neighbor list prevents nothing
CalmCall ==
    PathAwareRcPolicy(uav,
        [radio EXCEPT !.neighbor_cell_ids = <<"cell-B">>,
                      !.prb_utilization_serving = limits.overloaded_threshold],
        plan, profile, limits)

\* C15: the reason of a decision holds a clause for the target-cell branch,
\* one for the slice branch and one for the quota branch, in that order, and
\* every fallback that fired is identified by a clause: no active segment,
\* no service profile, and an empty neighbor list that prevented a switch
\* (a clause the call would not produce had the list prevented nothing).
C15_ReasonReflectsBranches ==
    pc = "decided" =>
        /\ InBranchOrder(Decision.reason)
        /\ (Active = None) <=> ("no-active-segment" \in ClausesOf(Decision.reason))
        /\ (profile = None) <=> ("no-service" \in ClausesOf(Decision.reason))
        /\ EmptyNeighborsPreventSwitch =>
               ClausesOf(Decision.reason) \ ClausesOf(Get(CalmCall.decision).reason) # {}

Called == pc \in {"estimated", "raised"}
Returned(r) == r.raised = NoError /\ r.prb \in Nat /\ r.prb >= 1

\* C19: estimate_required_prb returns an integer >= 1 for every input, is
\* non-decreasing in target_bitrate_mbps and non-increasing in sinr_db (above
\* the -10 dB floor; below it the floor applies).
C19_EstimateMonotone ==
    Called =>
        LET b == estimate_args.target_bitrate_mbps
            s == estimate_args.sinr_db
            here == EstimateRequiredPrb(b, s)
        IN  /\ Returned(here)
            /\ required_prb = Some(here.prb)
            /\ \A b2 \in Bitrates :
                   b2 >= b => /\ Returned(EstimateRequiredPrb(b2, s))
                              /\ EstimateRequiredPrb(b2, s).prb >= here.prb
            /\ \A s2 \in Sinrs :
                   s2 >= s => /\ Returned(EstimateRequiredPrb(b, s2))
                              /\ EstimateRequiredPrb(b, s2).prb <= here.prb

\* ==================================================== claims: the handler
\* the last n elements of seq (all of them when there are fewer)
LastOf(seq, n) == SubSeq(seq, Len(seq) - Min2(n, Len(seq)) + 1, Len(seq))

\* C16: after any sequence of record_decision calls on a handler created with
\* max_history = N >= 0, decision_history holds at most N records, and they
\* are the min(k, N) most recently recorded ones in arrival order.
C16_HistoryBounded ==
    /\ Len(decision_history) <= max_history
    /\ decision_history = LastOf(recorded, max_history)

\* C18: get_recent_decisions(limit) returns, for every limit >= 0, at most
\* limit records: the min(limit, len(history)) most recently recorded
\* decisions of the history, most recent first.
C18_RecentDecisions ==
    pc = "queried" =>
        /\ Len(recent) <= Get(limit)
        /\ recent = Reversed(LastOf(decision_history, Get(limit)))

\* ===================================================== claims: the server
\* the indication lacks position, radio_snapshot or a required radio field
Lacking(d) ==
    \/ "position" \notin DOMAIN d
    \/ "radio_snapshot" \notin DOMAIN d
    \/ ~(RequiredRadioKeys \subseteq DOMAIN d.radio_snapshot)

\* the uav_id of every indication in bodies that lacks nothing, in order
RECURSIVE AcceptedUavIds(_)
AcceptedUavIds(bodies) ==
    IF bodies = <<>> THEN <<>>
    ELSE LET body == bodies[Len(bodies)]
             front == AcceptedUavIds(SubSeq(bodies, 1, Len(bodies) - 1))
         IN  IF body = None \/ Lacking(Get(body)) THEN front
             ELSE Append(front, DictGet(Get(body), "uav_id", "unknown"))

\* C17: over any sequence of POST /e2/indication requests, an indication
\* lacking position, radio_snapshot or a required radio field is answered
\* 400 and leaves the decision history as it was, and every other indication
\* is answered 200 and appends exactly one record carrying its uav_id.
C17_IndicationsAnswered ==
    /\ \A i \in 1..Len(request) :
           request[i] # None =>
               response[i] = IF Lacking(Get(request[i])) THEN 400 ELSE 200
    /\ [i \in 1..Len(decision_history) |-> decision_history[i].uav_id] =
           AcceptedUavIds(request)

\* ======================================================= claims: the codec
\* C9: policy_from_dict(policy_to_dict(p)) equals p: same uav_id, same
\* segments in the same order, field by field.
C9_RoundTrip ==
    (pc = "restored" /\ policy # None) =>
        /\ Get(restored).uav_id = Get(policy).uav_id
        /\ Len(Get(restored).segments) = Len(Get(policy).segments)
        /\ \A i \in 1..Len(Get(policy).segments) :
               Get(restored).segments[i] = Get(policy).segments[i]

\* C9 witness: a policy with two different segments went through the round trip
C9_Witness ==
    /\ pc = "restored" /\ policy # None
    /\ Len(Get(policy).segments) = 2
    /\ Get(policy).segments[1] # Get(policy).segments[2]
    /\ Get(policy).segments[1].start_pos # Get(policy).segments[1].end_pos

\* ====================================== claims: lookup of the active segment
\* the segments of the plan handed to find_active_segment, and the position
LookedUp == Get(plan).segments
LookedAt == Get(position)

\* segment i holds the position in its half-open interval
Holds(i) == LookedUp[i].start_pos <= LookedAt /\ LookedAt < LookedUp[i].end_pos

\* C21: find_active_segment returns the first segment, in list order, with
\* start_pos <= position < end_pos; if no segment matches but segments exist it
\* returns the last segment (past the end, before the first start, or in a
\* gap alike); it returns no segment iff the plan has zero segments.
C21_FirstMatchElseLast ==
    pc = "found" =>
        /\ \A i \in 1..Len(LookedUp) :
              (Holds(i) /\ \A j \in 1..(i - 1) : ~Holds(j)) => found = Some(LookedUp[i])
        /\ (LookedUp # <<>> /\ \A i \in 1..Len(LookedUp) : ~Holds(i))
              => found = Some(LookedUp[Len(LookedUp)])
        /\ found = None <=> LookedUp = <<>>

\* a position in the gap between two segments was looked up and the last
\* segment came back
C21_Witness ==
    /\ pc = "found"
    /\ Len(LookedUp) = 2
    /\ LookedUp[1].end_pos <= LookedAt /\ LookedAt < LookedUp[2].start_pos
    /\ LookedUp[1].planned_cell_id # LookedUp[2].planned_cell_id
    /\ found = Some(LookedUp[2])

\* ========================================= claims: plan and lookup together
\* the cell chosen for the waypoint standing at the position looked up: the
\* cells are aligned with the waypoints sorted by index
CellAtTracked ==
    LET sorted == SortByIndex(waypoints)
        norm == Max2(1, Len(waypoints) - 1)
        i == CHOOSE k \in 1..Len(sorted) : PosOf(sorted[k].index, norm) = Get(position)
    IN  cells[i]

\* C25: for a policy compiled from waypoints with indices 0..n-1 and a cell
\* sequence, the lookup at index_i / max(1, n-1) returns a segment whose
\* planned_cell_id is the cell chosen for waypoint i, for every i.
C25_PlanAndLookupAgree ==
    pc = "tracked" =>
        /\ found # None
        /\ Get(found).planned_cell_id = CellAtTracked
\* ============================================ claims: the quota of a decision
\* the base quota of the call: of the active segment, else min_prb_quota
BaseOfCall == IF Active # None THEN BaseQuota ELSE limits.min_prb_quota

\* the SINR proxy the claim names: rsrp_serving when the target is the
\* serving cell, rsrp_best_neighbor when the decision switches
ProxyOfCall ==
    IF Decision.target_cell_id = radio.serving_cell_id
    THEN radio.rsrp_serving ELSE radio.rsrp_best_neighbor

EstimateOfCall == EstimateRequiredPrb(Get(profile).target_bitrate_mbps, ProxyOfCall)

\* C22: prb_quota = clamp(q, min_prb_quota, max_prb_quota), with q the base
\* quota when no service profile is given, else max(estimate, base), the
\* estimate taken at the service's target bitrate and the SINR proxy
\* rsrp_serving (staying) or rsrp_best_neighbor (switching).
C22_QuotaFormula ==
    pc = "decided" =>
        LET q == IF profile = None THEN BaseOfCall
                 ELSE Max2(EstimateOfCall.prb, BaseOfCall)
        IN  /\ profile # None => EstimateOfCall.raised = NoError
            /\ Decision.prb_quota =
                   Max2(limits.min_prb_quota, Min2(q, limits.max_prb_quota))

\* a switching decision with a service whose estimate at rsrp_best_neighbor
\* differs from the one at rsrp_serving, exceeds the base quota and lies
\* strictly inside the limits: the quota is that estimate
C22_Witness ==
    /\ pc = "decided"
    /\ profile # None
    /\ Decision.target_cell_id # radio.serving_cell_id
    /\ EstimateOfCall.prb #
           EstimateRequiredPrb(Get(profile).target_bitrate_mbps, radio.rsrp_serving).prb
    /\ EstimateOfCall.prb > BaseOfCall
    /\ limits.min_prb_quota < EstimateOfCall.prb
    /\ EstimateOfCall.prb < limits.max_prb_quota
    /\ Decision.prb_quota = EstimateOfCall.prb
\* ======================================= claims: the cells the planner picks
\* C23: every cell _choose_cells_dp returns for a step is present in the radio
\* map at that waypoint's index and either has sinr_db >= sinr_min_db or, when
\* no cell at that step meets the floor, is a cell of maximum sinr_db there;
\* the output has one cell per waypoint, aligned with the waypoints sorted by
\* index whatever order they were passed in.
C23_ChosenAreCandidates ==
    pc = "chosen" =>
        /\ Len(cells) = Len(waypoints)
        /\ \A i \in 1..Len(cells) :
              LET step == StepsOfPath[i]
              IN  /\ cells[i] \in CellsAtStep(step)
                  /\ \/ MetricAtStep(step, cells[i]).sinr_db >= Get(config).sinr_min_db
                     \/ /\ QualifyingCells(Get(config), step) = {}
                        /\ cells[i] \in MaxSinrCells(step)

\* two waypoints passed in descending index order; the step of index 0 has
\* no cell at the floor and its best cell is taken, the step of index 1 holds
\* only the other cell
C23_Witness ==
    /\ pc = "chosen"
    /\ Len(waypoints) = 2 /\ waypoints[1].index > waypoints[2].index
    /\ QualifyingCells(Get(config), 0) = {}
    /\ Cardinality(CellsAtStep(0)) = 2
    /\ cells[1] \in MaxSinrCells(0) /\ MaxSinrCells(0) # CellsAtStep(0)
    /\ CellsAtStep(1) = Cells \ {cells[1]}
    /\ cells[2] # cells[1]
\* ===================================== claims: what every segment carries
\* C24: every segment of _compress_to_segments carries base_prb_quota =
\* max(5, floor(service.target_bitrate_mbps)) and slice_id = service.name, and
\* the policy carries the given uav_id, whatever the cells and the waypoints.
C24_SegmentsCarryService ==
    pc = "compiled" =>
        /\ Get(policy).uav_id = "uav-001"
        /\ \A i \in 1..Len(Segments) :
              /\ 10 * Segments[i].base_prb_quota <=
                    Max2(10 * MinBaseQuota, service.target_bitrate_mbps)
              /\ 10 * Segments[i].base_prb_quota >
                    Max2(10 * MinBaseQuota, service.target_bitrate_mbps) - 10
              /\ Segments[i].slice_id = service.name

\* two segments compiled for a service of 8.7 Mbps: both carry quota 8
C24_Witness ==
    /\ pc = "compiled"
    /\ Len(Segments) >= 2
    /\ service.target_bitrate_mbps > 10 * MinBaseQuota
    /\ service.target_bitrate_mbps % 10 # 0
    /\ \A i \in 1..Len(Segments) :
          10 * Segments[i].base_prb_quota < service.target_bitrate_mbps
\* ======================================== claims: the target of a handover
\* the cells the UAV reports as neighbors
ReportedNeighbors ==
    {radio.neighbor_cell_ids[k] : k \in 1..Len(radio.neighbor_cell_ids)}

\* C26: whenever path_aware_rc_policy returns a target_cell_id different from
\* radio.serving_cell_id, that target is a member of radio.neighbor_cell_ids,
\* in the flight-plan branch as well as in the reactive branch.
C26_TargetIsNeighbor ==
    (pc = "decided" /\ Decision.target_cell_id # radio.serving_cell_id) =>
        Decision.target_cell_id \in ReportedNeighbors
\* ================================== claims: concurrent request handlers
\* the records a list holds
RecordsIn(history) == {history[k] : k \in 1..Len(history)}

\* C27: with two request handlers running record_decision concurrently on
\* the one shared handler, once both have completed no recorded decision
\* among the newest max_history is lost and the history holds at most
\* max_history records, under every interleaving.
C27_ConcurrentRecordsKept ==
    pc = "raced" =>
        /\ Len(decision_history) <= max_history
        /\ RecordsIn(LastOf(recorded, max_history)) \subseteq RecordsIn(decision_history)
\* ================================ claims: the policy beside its baseline
Baseline == Get(baseline)

\* C28: with no active segment, the target_cell_id of path_aware_rc_policy
\* equals the target_cell_id simple_path_aware_policy returns for the same
\* uav, radio, overloaded_threshold and hysteresis_db.
C28_RefinesBaseline ==
    (pc = "decided" /\ baseline # None /\ Active = None) =>
        Decision.target_cell_id = Baseline.target_cell_id

\* both policies were called with a plan that yields no active segment and
\* two neighbors listed, and both leave the serving cell for the first one
C28_Witness ==
    /\ pc = "decided" /\ baseline # None /\ Active = None
    /\ plan # None
    /\ Len(radio.neighbor_cell_ids) = 2
    /\ Decision.target_cell_id = radio.neighbor_cell_ids[1]
    /\ Baseline.target_cell_id = radio.neighbor_cell_ids[1]
    /\ radio.neighbor_cell_ids[1] # radio.serving_cell_id
\* ================================== claims: the handover penalty of the plan
\* the penalties the plan of the call is compared under, in halves
Penalties == 0..(MaxPenalty + 2)

\* the handovers of the plan for the same waypoints, radio map, floor and
\* weights under ho_penalty = p
HandoversUnder(p) ==
    Handovers(ChooseCellsDp(waypoints, radio_map,
                            [Get(config) EXCEPT !.ho_penalty = p]).cells)

\* C29: for fixed waypoints, radio map, sinr_min_db, w_sinr and w_load the
\* number of handovers of the sequence _choose_cells_dp returns is
\* non-increasing in ho_penalty.
C29_HandoversNonIncreasing ==
    pc = "chosen" =>
        /\ Handovers(cells) = HandoversUnder(Get(config).ho_penalty)
        /\ \A p1 \in Penalties : \A p2 \in Penalties :
              p1 <= p2 => HandoversUnder(p2) <= HandoversUnder(p1)

\* a plan with a handover that a larger penalty removes
C29_Witness ==
    /\ pc = "chosen"
    /\ Handovers(cells) = 1
    /\ \E p2 \in Penalties :
          /\ p2 > Get(config).ho_penalty
          /\ HandoversUnder(p2) = 0
\* ===================================== claims: the rows of the DP table
\* the cells a DP row is keyed by
KeysOf(row) == {row[k].cell : k \in 1..Len(row)}

\* C30: in every run of _choose_cells_dp that passes the radio-data checks,
\* each DP row is non-empty and every entry of a row after the first stores a
\* predecessor that is a key of the previous row; the assertions
\* 'best_score is not None' and 'prev_cell is not None' never fail and
\* backtracking never looks up a missing cell.
C30_RowsWellFormed ==
    /\ raised \notin {"AssertionError", "KeyError"}
    /\ (pc # "init" /\ waypoints # <<>> /\ FullCoverage) =>
          /\ raised = NoError
          /\ Len(dp_states) = Len(waypoints)
          /\ \A i \in 1..Len(dp_states) :
                /\ dp_states[i] # <<>>
                /\ cells[i] \in KeysOf(dp_states[i])
                /\ \A k \in 1..Len(dp_states[i]) :
                      IF i = 1 THEN dp_states[i][k].prev = None
                      ELSE /\ dp_states[i][k].prev # None
                           /\ Get(dp_states[i][k].prev) \in KeysOf(dp_states[i - 1])

\* a run over two steps whose second row holds two entries with different
\* predecessors, both keys of a first row of two entries
C30_Witness ==
    /\ pc = "chosen"
    /\ Len(dp_states) = 2
    /\ Len(dp_states[1]) = 2 /\ Len(dp_states[2]) = 2
    /\ dp_states[2][1].prev # dp_states[2][2].prev
    /\ \A k \in 1..2 : Get(dp_states[2][k].prev) \in KeysOf(dp_states[1])
====
